---- MODULE Spec2Model ----
(***************************************************************************)
(* The Irish health-insurance chooser:                                     *)
(*   - engine v3 (src/lib/recommendation-engine-v3.ts): elimination,       *)
(*     scoring, tie-break comparator, orchestration;                       *)
(*   - engine v2 (src/lib/recommendation-engine-v2.ts): completeness       *)
(*     calculator and hard filter;                                         *)
(*   - the adaptive quiz (src/lib/adaptive-ranking-engine.ts and the       *)
(*     /api/adaptive-quiz routes): discriminative power, question          *)
(*     ranking, sessions;                                                  *)
(*   - the home page with its consent gate and quiz;                       *)
(*   - the service engine (src/lib/services/recommendationEngine.ts);      *)
(*   - the sessions API (POST, PUT, PATCH and GET of /api/sessions);       *)
(*   - the QuizSectionAdaptive component with the routes it calls;         *)
(*   - QuizSection on its hard-filter questions, up to the elimination     *)
(*     step of engine v3;                                                  *)
(*   - the blueprint loader and its module cache.                          *)
(*                                                                         *)
(* JavaScript values are written as strings: the booleans "true" and       *)
(* "false", the strings "'true'" and "'false'" (a quoted boolean, as a     *)
(* radio group produces), "null" and "undefined".  Numbers are integers:   *)
(* weights are points, tier multipliers are percentages (1.1 is 110),      *)
(* scores and breakdown entries are hundredths of a point (83 is 8300),    *)
(* completeness scores are tenths (0.9 is 9).  An optional number is a     *)
(* sequence of length at most one (<<>> is undefined).  A discriminative   *)
(* power stored in the table is a number of tenths; a computed one is an   *)
(* exact fraction.                                                         *)
(***************************************************************************)
EXTENDS Integers, Sequences, FiniteSets, TLC

VARIABLES
    preferences,    \* UserPreferences passed to the engine
    scoringSpec,    \* content of scoring_spec.json
    plan,           \* SpecPlan: the plan handed to the pure functions
    survivors,      \* SpecPlan: applyEliminationRules([plan], preferences)
    planScore,      \* SpecPlan: scorePlan(plan, preferences, scoringSpec)
    scoredList,     \* SpecCompare: a list of scored plans
    cmpResult,      \* SpecCompare: the last comparePlans(a, b) evaluated
    sortedList,     \* SpecCompare: scoredList after sort(comparePlans)
    plansFile,      \* Spec: content of plans.json
    missingFiles,   \* Spec: the files whose fetch answers with !response.ok
    cachedData,     \* Spec: module cache of load-blueprint-data
    pc,             \* Spec: position of the getRecommendationsV3 call
    allPlans,       \* Spec: local allPlans
    filteredPlans,  \* Spec: local filteredPlans
    tasksDone,      \* Spec: indices whose scoring callback has completed
    scoredPlans,    \* Spec: Promise.all slots, then the sorted array
    results,        \* Spec: the ComparisonResult[] returned
    calls,          \* Spec: number of calls started
    firstOutcome,   \* Spec: outcome of the first completed call
    v2plan,         \* SpecCompleteness: the key fields of an engine-v2 plan
    completenessScore, \* SpecCompleteness: calculateCompletenessScore(v2plan)
    powerCall,      \* SpecPower: arguments of calculateDiscriminativePower
    power,          \* SpecPower: the value it returned
    questionStatistics, \* SpecQuiz: the "QuestionStatistics" table, by questionKey
    quizSessions,   \* SpecQuiz: the "AdaptiveQuizSession" table, by sessionId
    questionResponseAnalytics, \* SpecQuiz: rows of "QuestionResponseAnalytics"
    now,            \* SpecQuiz: the database clock, NOW()
    client,         \* SpecQuiz: state of the client of the adaptive-quiz routes
    response,       \* SpecQuiz: the last response of an adaptive-quiz route
    home,           \* SpecPage: state of the Home component
    consentGate,    \* SpecPage: state of the mounted ConsentGate
    analytics_consent, \* SpecPage: the localStorage item 'analytics_consent'
    quizSection,    \* SpecPage: state of the mounted QuizSection
    filterArgs,     \* SpecFilter: the plans and preferences given to filterPlans
    keptPlans,      \* SpecFilter: the plans filterPlans returned
    serviceCall,    \* SpecService: the "Plan" table and the preferences given
    serviceResult,  \* SpecService: what generateRecommendations returned or threw
    sessionPlan,    \* SpecService: rows of the "SessionPlan" table
    sessionTable,   \* SpecSession: the "Session" table, by id
    sessionResponse, \* SpecSession: the last response of the sessions API
    adaptive,       \* SpecAdaptive: state of the QuizSectionAdaptive component
    userGave,       \* SpecAdaptive: history, the value the user last selected
                    \* for each key while its question waited on the card
    recommendationCall, \* SpecAdaptive: the preferences given to getRecommendationsV3
    submitSection,  \* SpecSubmit: state of the QuizSection component
    submitPlans,    \* SpecSubmit: the plans getPlans resolves with
    submitted,      \* SpecSubmit: the preferences handleSubmit built and the
                    \* plans applyEliminationRules kept for them
    blueprintCache, \* SpecLoader: the objects cachedData has referred to,
                    \* the current one last
    getters,        \* SpecLoader: the getter calls made, in call order
    loaderCalls     \* SpecLoader: number of calls made to the loader

planVars == <<plan, survivors, planScore>>
compareVars == <<scoredList, cmpResult, sortedList>>

recLocals == <<allPlans, filteredPlans, tasksDone, scoredPlans, results>>
recVars == <<plansFile, missingFiles, cachedData, pc, recLocals, calls, firstOutcome>>

completenessVars == <<v2plan, completenessScore>>

\* The discriminative power calculator of the adaptive ranking engine.
powerVars == <<powerCall, power>>

\* The recommendation engines, and the state outside them.
engineVars == <<preferences, scoringSpec, planVars, compareVars, recVars,
                completenessVars>>
\* The adaptive quiz: its tables, its routes' last response and its client.
quizVars == <<questionStatistics, quizSessions, questionResponseAnalytics,
              now, client, response>>

\* The home page and the components it mounts.
pageVars == <<home, consentGate, analytics_consent, quizSection>>

\* The hard filter of engine v2.
filterVars == <<filterArgs, keptPlans>>

\* The service engine of src/lib/services.
serviceVars == <<serviceCall, serviceResult, sessionPlan>>

\* The sessions API.
sessionApiVars == <<sessionTable, sessionResponse>>

\* The QuizSectionAdaptive component.
adaptiveVars == <<adaptive, userGave, recommendationCall>>

\* The QuizSection component on its hard-filter questions.
submitVars == <<submitSection, submitPlans, submitted>>

\* The blueprint loader.
loaderVars == <<blueprintCache, getters, loaderCalls>>

\* The browser side of the static quiz.
browserVars == <<submitVars, loaderVars>>

\* The parts of the application outside the quiz, the page and the filter.
restVars == <<serviceVars, sessionApiVars, adaptiveVars, browserVars>>

appVars == <<powerVars, quizVars, pageVars, filterVars, restVars>>

vars == <<engineVars, appVars>>

(***************************************************************************)
(* Bounds                                                                  *)
(***************************************************************************)
\* SpecPlan: number of scoring dimensions on which the plan and the
\* preferences range freely; on the others the plan field is known and the
\* preference is unanswered.
MaxDims == 2

\* SpecCompare: raw scores range over 0, 2.5, 5, ... points, so that gaps
\* below, at and above the 5-point threshold occur.
MaxScoreSteps == 3

\* SpecCompare: largest number of verification flags of a scored plan.
MaxFlags == 1

\* Spec: largest number of plans in plans.json.
MaxPlans == 2

\* Spec: number of getRecommendationsV3 calls made one after the other.
MaxCalls == 2

(***************************************************************************)
(* JavaScript value helpers                                                *)
(***************************************************************************)
\* ToBoolean on the values that occur here (no empty string, no 0).
Truthy(v) == v \notin {"false", "null", "undefined"}

\* x === null || x === undefined
IsNullish(v) == v \in {"null", "undefined"}

\* tbl[key] || d   for a table of numbers (absent entry and 0 are falsy)
OrDefault(tbl, key, d) ==
    IF key \in DOMAIN tbl /\ tbl[key] # 0 THEN tbl[key] ELSE d

\* Math.round(n / d) for n >= 0, d > 0 (round half up)
RoundDiv(n, d) == (2 * n + d) \div (2 * d)

\* (x || 0) for an optional number
OrZero(opt) == IF opt = <<>> THEN 0 ELSE opt[1]

(***************************************************************************)
(* Engine v3: scorePlan                                                    *)
(***************************************************************************)
\* The six feature blocks of scorePlan, in source order.
ScoreDims ==
    <<"hospital_cover", "outpatient_cover", "gp_visits",
      "maternity_cover", "mental_health", "overseas_emergency">>

DimSet == {ScoreDims[i] : i \in 1..Len(ScoreDims)}

\* The preference each block reads.
PrefKey ==
    [hospital_cover     |-> "hospitalLevel",
     outpatient_cover   |-> "outpatientCover",
     gp_visits          |-> "gpVisits",
     maternity_cover    |-> "maternityNeeded",
     mental_health      |-> "mentalHealthCover",
     overseas_emergency |-> "overseasCoverage"]

\* The fallback of `feature_scoring.<dim>.yes || n` in each block, in points.
DefaultYes ==
    [outpatient_cover   |-> 10,
     gp_visits          |-> 8,
     maternity_cover    |-> 15,
     mental_health      |-> 10,
     overseas_emergency |-> 12]

\* The verification flag each block pushes.
FlagText ==
    [hospital_cover     |-> "Hospital cover not verified",
     outpatient_cover   |-> "Outpatient cover not verified",
     gp_visits          |-> "GP visits not verified",
     maternity_cover    |-> "Maternity cover not verified",
     mental_health      |-> "Mental health cover not verified",
     overseas_emergency |-> "Overseas coverage not verified"]

\* Variant of Answered: the guard written `!== null`, which takes an absent
\* preference for an answered one.
Answered_notNull(d, prefs) ==
    IF d = "hospital_cover"
    THEN Truthy(prefs.hospitalLevel)
    ELSE prefs[PrefKey[d]] # "null"

\* The guard of a block: `if (preferences.hospitalLevel)` for the hospital
\* block, `if (preferences.x !== undefined)` for the others.
Answered(d, prefs) ==
    IF d = "hospital_cover"
    THEN Truthy(prefs.hospitalLevel)
    ELSE prefs[PrefKey[d]] # "undefined"

\* The points a block adds, in points.  They depend on the preference and
\* the weight table only; the plan's field is not read.
DimPoints(d, prefs, spec) ==
    IF d = "hospital_cover"
    THEN OrDefault(spec.feature_scoring[d], prefs.hospitalLevel, 0)
    ELSE IF Truthy(prefs[PrefKey[d]])
         THEN OrDefault(spec.feature_scoring[d], "yes", DefaultYes[d])
         ELSE OrDefault(spec.feature_scoring[d], "no", 0)

\* The inner `if (plan.x === null || plan.x === undefined)` of a block.
DimFlagged(d, p) == IsNullish(p[d])

RECURSIVE SumPoints(_)
SumPoints(bd) ==
    IF bd = <<>> THEN 0 ELSE bd[1].points + SumPoints(Tail(bd))

scorePlan(p, prefs, spec) ==
    LET answered == SelectSeq(ScoreDims, LAMBDA d : Answered(d, prefs))
        features ==
            [i \in 1..Len(answered) |->
                [feature |-> answered[i],
                 points  |-> 100 * DimPoints(answered[i], prefs, spec)]]
        flagged == SelectSeq(answered, LAMBDA d : DimFlagged(d, p))
        flags == [i \in 1..Len(flagged) |-> FlagText[flagged[i]]]
        tierMultiplier == OrDefault(spec.tier_multipliers, p.plan_tier, 100)
        priced == Truthy(prefs.priceSensitivity)
        sum == SumPoints(features)
    IN  [score |-> IF priced THEN (sum * tierMultiplier) \div 100 ELSE sum,
         breakdown |->
            IF priced
            THEN Append(features,
                        [feature |-> "tier_multiplier", points |-> tierMultiplier])
            ELSE features,
         verificationFlags |-> flags]

(***************************************************************************)
(* Engine v3: applyEliminationRules                                        *)
(***************************************************************************)
\* The filter callback: TRUE when the plan is kept.
PassesElimination(p, prefs) ==
    /\ ~(prefs.hospitalLevel = "PRIVATE" /\ p.hospital_cover = "PUBLIC")
    /\ ~(Truthy(prefs.maternityNeeded) /\ ~Truthy(p.maternity_cover))
    /\ ~(Truthy(prefs.mentalHealthCover) /\ ~Truthy(p.mental_health))
    /\ ~(Truthy(prefs.overseasCoverage) /\ ~Truthy(p.overseas_emergency))

\* Variant of applyEliminationRules: falls back to the whole catalog when
\* the filter leaves nothing.
applyEliminationRules_fallback(plans, prefs) ==
    LET kept == SelectSeq(plans, LAMBDA p : PassesElimination(p, prefs))
    IN  IF kept = <<>> THEN plans ELSE kept

applyEliminationRules(plans, prefs) ==
    SelectSeq(plans, LAMBDA p : PassesElimination(p, prefs))

(***************************************************************************)
(* Engine v3: comparePlans and the sort of getRecommendationsV3            *)
(***************************************************************************)
Abs(n) == IF n < 0 THEN -n ELSE n

\* Variant of comparePlans: rule 1 without the 5-point threshold.
comparePlans_scoreFirst(a, b) ==
    IF a.score # b.score
    THEN b.score - a.score
    ELSE LET aCompleteness == OrZero(a.plan.completeness_score)
             bCompleteness == OrZero(b.plan.completeness_score)
         IN  IF aCompleteness # bCompleteness
             THEN bCompleteness - aCompleteness
             ELSE Len(a.verificationFlags) - Len(b.verificationFlags)

\* Variant of comparePlans: rule 1 without Math.abs.
comparePlans_noAbs(a, b) ==
    IF a.score - b.score > 500
    THEN b.score - a.score
    ELSE LET aCompleteness == OrZero(a.plan.completeness_score)
             bCompleteness == OrZero(b.plan.completeness_score)
         IN  IF aCompleteness # bCompleteness
             THEN bCompleteness - aCompleteness
             ELSE Len(a.verificationFlags) - Len(b.verificationFlags)

\* Negative: a is ordered before b.  Positive: b before a.
comparePlans(a, b) ==
    IF Abs(a.score - b.score) > 500
    THEN b.score - a.score
    ELSE LET aCompleteness == OrZero(a.plan.completeness_score)
             bCompleteness == OrZero(b.plan.completeness_score)
         IN  IF aCompleteness # bCompleteness
             THEN bCompleteness - aCompleteness
             ELSE Len(a.verificationFlags) - Len(b.verificationFlags)

\* One step of a stable insertion sort: x goes after the last element that
\* the comparator does not order after x.
InsertPlan(s, x) ==
    LET j == CHOOSE i \in 0..Len(s) :
                /\ i = 0 \/ comparePlans(s[i], x) <= 0
                /\ \A k \in (i + 1)..Len(s) : comparePlans(s[k], x) > 0
    IN  SubSeq(s, 1, j) \o <<x>> \o SubSeq(s, j + 1, Len(s))

RECURSIVE SortFrom(_, _)
SortFrom(done, rest) ==
    IF rest = <<>> THEN done
    ELSE SortFrom(InsertPlan(done, rest[1]), Tail(rest))

\* scoredPlans.sort(comparePlans): Array.prototype.sort is stable; for a
\* list of this size the engine sorts by insertion.
SortPlans(s) == SortFrom(<<>>, s)

(***************************************************************************)
(* Inputs                                                                  *)
(***************************************************************************)
PlanTiers == {"BASIC", "MID", "HIGH", "PREMIUM"}

\* A plan all of whose benefit fields are known.
KnownPlan(name, tier, completeness) ==
    [plan_name          |-> name,
     plan_tier          |-> tier,
     hospital_cover     |-> "PRIVATE",
     outpatient_cover   |-> "true",
     gp_visits          |-> "true",
     maternity_cover    |-> "true",
     mental_health      |-> "true",
     overseas_emergency |-> "true",
     completeness_score |-> completeness]

\* Preferences with no answered key.
NoPreferences ==
    [hospitalLevel     |-> "undefined",
     outpatientCover   |-> "undefined",
     gpVisits          |-> "undefined",
     maternityNeeded   |-> "undefined",
     mentalHealthCover |-> "undefined",
     overseasCoverage  |-> "undefined",
     priceSensitivity  |-> "undefined"]

PlanFieldValues(d) ==
    IF d = "hospital_cover"
    THEN {"PUBLIC", "PRIVATE", "null", "undefined"}
    ELSE {"true", "false", "null", "undefined"}

PrefValues(d) ==
    IF d = "hospital_cover"
    THEN {"undefined", "PUBLIC", "PRIVATE"}
    ELSE {"undefined", "true", "false"}

\* The plans that differ from base on the dimensions D only.
PlansOver(D, base) ==
    {[k \in DOMAIN base |-> IF k \in D THEN f[k] ELSE base[k]] :
        f \in {g \in [D -> {"PUBLIC", "PRIVATE", "true", "false", "null", "undefined"}] :
                  \A d \in D : g[d] \in PlanFieldValues(d)}}

\* The preferences that answer dimensions of D only.
PrefsOver(D, base) ==
    {[k \in DOMAIN base |->
        IF \E d \in D : PrefKey[d] = k
        THEN f[CHOOSE d \in D : PrefKey[d] = k] ELSE base[k]] :
        f \in {g \in [D -> {"undefined", "PUBLIC", "PRIVATE", "true", "false"}] :
                  \A d \in D : g[d] \in PrefValues(d)}}

\* Three contents of scoring_spec.json: the reference weights with tier
\* multipliers, a file with empty tables (every `||` fallback is taken),
\* and a table that gives points for a "no" answer and none for "yes".
WeightedSpec ==
    [feature_scoring |->
        [hospital_cover     |-> ("PUBLIC" :> 0 @@ "SEMI_PRIVATE" :> 20 @@
                                 "PRIVATE" :> 30 @@ "HI_TECH" :> 40),
         outpatient_cover   |-> ("yes" :> 20 @@ "no" :> 0),
         gp_visits          |-> ("yes" :> 10 @@ "no" :> 0),
         maternity_cover    |-> ("yes" :> 12 @@ "no" :> 0),
         mental_health      |-> ("yes" :> 15 @@ "no" :> 0),
         overseas_emergency |-> ("yes" :> 10 @@ "no" :> 0)],
     tier_multipliers |->
        ("BASIC" :> 110 @@ "MID" :> 100 @@ "HIGH" :> 90)]

EmptyTable == [k \in {} |-> 0]

EmptySpec ==
    [feature_scoring |-> [d \in DimSet |-> EmptyTable],
     tier_multipliers |-> EmptyTable]

NoPointsSpec ==
    [feature_scoring |->
        [d \in DimSet |->
            IF d = "hospital_cover" THEN ("PRIVATE" :> 0)
            ELSE ("yes" :> 0 @@ "no" :> 5)],
     tier_multipliers |-> ("BASIC" :> 100 @@ "PREMIUM" :> 120)]

ScoringSpecs == {WeightedSpec, EmptySpec, NoPointsSpec}

(***************************************************************************)
(* SpecPlan: the pure functions of engine v3 applied to one plan           *)
(***************************************************************************)
NotRun == <<>>

PlanIdle == plan = NotRun /\ survivors = NotRun /\ planScore = NotRun

CompareIdle == scoredList = NotRun /\ cmpResult = NotRun /\ sortedList = NotRun

RecIdle ==
    /\ plansFile = NotRun /\ missingFiles = {} /\ cachedData = NotRun
    /\ pc = "none" /\ allPlans = NotRun /\ filteredPlans = NotRun
    /\ tasksDone = {} /\ scoredPlans = NotRun /\ results = NotRun
    /\ calls = 0 /\ firstOutcome = NotRun

CompletenessIdle == v2plan = NotRun /\ completenessScore = NotRun

PowerIdle == powerCall = NotRun /\ power = NotRun

QuizIdle ==
    /\ questionStatistics = NotRun /\ quizSessions = NotRun
    /\ questionResponseAnalytics = NotRun /\ now = 0
    /\ client = NotRun /\ response = NotRun

PageIdle ==
    /\ home = NotRun /\ consentGate = NotRun
    /\ analytics_consent = "null" /\ quizSection = NotRun

FilterIdle == filterArgs = NotRun /\ keptPlans = NotRun

ServiceIdle ==
    serviceCall = NotRun /\ serviceResult = NotRun /\ sessionPlan = NotRun

SessionApiIdle == sessionTable = NotRun /\ sessionResponse = NotRun

AdaptiveIdle ==
    adaptive = NotRun /\ userGave = NotRun /\ recommendationCall = NotRun

SubmitIdle ==
    submitSection = NotRun /\ submitPlans = NotRun /\ submitted = NotRun

LoaderIdle ==
    blueprintCache = NotRun /\ getters = NotRun /\ loaderCalls = 0

BrowserIdle == SubmitIdle /\ LoaderIdle

RestIdle == ServiceIdle /\ SessionApiIdle /\ AdaptiveIdle /\ BrowserIdle

AppIdle == PowerIdle /\ QuizIdle /\ PageIdle /\ FilterIdle /\ RestIdle

\* No engine runs: the adaptive quiz and the page do not touch their state.
EngineIdle ==
    /\ preferences = NoPreferences
    /\ scoringSpec = EmptySpec
    /\ PlanIdle
    /\ CompareIdle
    /\ RecIdle
    /\ CompletenessIdle

InitPlan ==
    /\ \E D \in {S \in SUBSET DimSet : Cardinality(S) <= MaxDims} :
          /\ \E tier \in PlanTiers :
                plan \in PlansOver(D, KnownPlan("P1", tier, <<10>>))
          /\ \E price \in {"undefined", "BUDGET"} :
                preferences \in
                    PrefsOver(D, [NoPreferences EXCEPT !.priceSensitivity = price])
    /\ scoringSpec \in ScoringSpecs
    /\ survivors = NotRun
    /\ planScore = NotRun
    /\ CompareIdle
    /\ RecIdle
    /\ CompletenessIdle
    /\ AppIdle

\* applyEliminationRules([plan], preferences)
ApplyElimination ==
    /\ plan # NotRun
    /\ survivors = NotRun
    /\ survivors' = <<applyEliminationRules(<<plan>>, preferences)>>
    /\ UNCHANGED <<preferences, scoringSpec, plan, planScore, compareVars, recVars, completenessVars, appVars>>

\* scorePlan(plan, preferences, scoringSpec)
ScorePlan ==
    /\ plan # NotRun
    /\ planScore = NotRun
    /\ planScore' = <<scorePlan(plan, preferences, scoringSpec)>>
    /\ UNCHANGED <<preferences, scoringSpec, plan, survivors, compareVars, recVars, completenessVars, appVars>>

NextPlan == ApplyElimination \/ ScorePlan

SpecPlan == InitPlan /\ [][NextPlan]_vars

(***************************************************************************)
(* SpecCompare: comparePlans and the sort applied to three scored plans    *)
(***************************************************************************)
ScoreValues == {250 * k : k \in 0..MaxScoreSteps}

CompletenessValues == {<<>>, <<0>>, <<6>>, <<9>>}

\* The first n verification flags, in the order scorePlan pushes them.
FlagsOfLen(n) == [i \in 1..n |-> FlagText[ScoreDims[i]]]

CompareNames == <<"A", "B", "C">>

ScoredPlan(name, score, completeness, nflags) ==
    [plan  |-> KnownPlan(name, "MID", completeness),
     score |-> score,
     verificationFlags |-> FlagsOfLen(nflags)]

InitCompare ==
    /\ \E sc \in [1..Len(CompareNames) -> ScoreValues],
          co \in [1..Len(CompareNames) -> CompletenessValues],
          fl \in [1..Len(CompareNames) -> 0..MaxFlags] :
          scoredList = [i \in 1..Len(CompareNames) |->
                          ScoredPlan(CompareNames[i], sc[i], co[i], fl[i])]
    /\ cmpResult = NotRun
    /\ sortedList = NotRun
    /\ preferences = NoPreferences
    /\ scoringSpec = EmptySpec
    /\ PlanIdle
    /\ RecIdle
    /\ CompletenessIdle
    /\ AppIdle

\* comparePlans(scoredList[i], scoredList[j])
ComparePair ==
    /\ scoredList # NotRun
    /\ sortedList = NotRun
    /\ \E i, j \in 1..Len(scoredList) :
          /\ i # j
          /\ cmpResult' = <<[a |-> scoredList[i], b |-> scoredList[j],
                              value |-> comparePlans(scoredList[i], scoredList[j])]>>
    /\ UNCHANGED <<preferences, scoringSpec, planVars, scoredList, sortedList, recVars,
                   completenessVars, appVars>>

\* scoredList.sort(comparePlans)
SortList ==
    /\ scoredList # NotRun
    /\ sortedList = NotRun
    /\ sortedList' = <<SortPlans(scoredList)>>
    /\ UNCHANGED <<preferences, scoringSpec, planVars, scoredList, cmpResult, recVars,
                   completenessVars, appVars>>

NextCompare == ComparePair \/ SortList

SpecCompare == InitCompare /\ [][NextCompare]_vars

(***************************************************************************)
(* Engine v3: getRecommendationsV3 and the blueprint cache                 *)
(***************************************************************************)
\* JavaScript numbers that need not be finite.
Num(n) == [kind |-> "number", value |-> n]
NaN == [kind |-> "NaN", value |-> 0]
Infinity == [kind |-> "Infinity", value |-> 0]

\* Math.round((score / maxScore) * 100) for non-negative scores
relativeScore(score, maxScore) ==
    IF maxScore = 0
    THEN IF score = 0 THEN NaN ELSE Infinity
    ELSE Num(RoundDiv(score * 100, maxScore))

\* Object.entries(breakdown).sort(([, a], [, b]) => b - a): stable, by points
\* descending.
InsertDriver(s, x) ==
    LET j == CHOOSE i \in 0..Len(s) :
                /\ i = 0 \/ x.points - s[i].points <= 0
                /\ \A k \in (i + 1)..Len(s) : x.points - s[k].points > 0
    IN  SubSeq(s, 1, j) \o <<x>> \o SubSeq(s, j + 1, Len(s))

RECURSIVE SortDriversFrom(_, _)
SortDriversFrom(done, rest) ==
    IF rest = <<>> THEN done
    ELSE SortDriversFrom(InsertDriver(done, rest[1]), Tail(rest))

Slice(s, n) == SubSeq(s, 1, IF Len(s) < n THEN Len(s) ELSE n)

drivers(rec) == Slice(SortDriversFrom(<<>>, rec.breakdown), 3)

\* `vs <name>: <Math.round(diff)> points higher` for the first result when
\* there is a second one, undefined (<<>>) otherwise.
tradeOffs(top, index) ==
    IF index = 1 /\ Len(top) > 1
    THEN <<[vs |-> top[2].plan.plan_name,
            points |-> (top[1].score - top[2].score + 50) \div 100]>>
    ELSE <<>>

\* Step 5: the ComparisonResult of topRecommendations[index]
BuildResult(top, index) ==
    LET rec == top[index]
        rel == relativeScore(rec.score, top[1].score)
    IN  [plan               |-> rec.plan,
         score              |-> rel,
         matchPercentage    |-> rel,
         drivers            |-> drivers(rec),
         tradeOffs          |-> tradeOffs(top, index),
         verificationNeeded |-> Len(rec.verificationFlags) > 0,
         verificationFlags  |-> rec.verificationFlags,
         completenessScore  |-> OrZero(rec.plan.completeness_score)]

\* Steps 4 and 5 on the sorted array.
BuildResults(sorted) ==
    LET top == Slice(sorted, 5)
    IN  [i \in 1..Len(top) |-> BuildResult(top, i)]

\* Variant of StoreScore: results are pushed in the order the callbacks
\* complete.
StoreScore_completionOrder(slots, i, r) ==
    LET k == CHOOSE n \in 1..Len(slots) :
                slots[n] = <<>> /\ \A m \in 1..(n - 1) : slots[m] # <<>>
    IN  [slots EXCEPT ![k] = <<r>>]

\* Promise.all keeps the result of the i-th callback in the i-th slot.
StoreScore(slots, i, r) == [slots EXCEPT ![i] = <<r>>]

\* Entry of a call: the locals are fresh; the outcome of the first
\* completed call is remembered for comparison.
Outcome == [status |-> pc, results |-> results]

Call ==
    /\ pc \in {"idle", "returned", "thrown"}
    /\ calls < MaxCalls
    /\ calls' = calls + 1
    /\ firstOutcome' = IF pc # "idle" /\ firstOutcome = NotRun
                        THEN <<Outcome>> ELSE firstOutcome
    /\ pc' = "getPlans"
    /\ allPlans' = <<>> /\ filteredPlans' = <<>> /\ tasksDone' = {}
    /\ scoredPlans' = <<>> /\ results' = <<>>
    /\ UNCHANGED <<preferences, scoringSpec, planVars, compareVars,
                   plansFile, missingFiles, cachedData, completenessVars, appVars>>

\* const allPlans = await getPlans()
GetPlans ==
    /\ pc = "getPlans"
    /\ IF cachedData.plans # <<>>
       THEN /\ allPlans' = cachedData.plans[1]
            /\ pc' = "getScoringSpec"
            /\ UNCHANGED cachedData
       ELSE IF "plans.json" \in missingFiles
       THEN /\ pc' = "thrown"
            /\ UNCHANGED <<allPlans, cachedData>>
       ELSE /\ cachedData' = [cachedData EXCEPT !.plans = <<plansFile>>]
            /\ allPlans' = plansFile
            /\ pc' = "getScoringSpec"
    /\ UNCHANGED <<preferences, scoringSpec, planVars, compareVars, plansFile,
                   missingFiles, filteredPlans, tasksDone, scoredPlans,
                   results, calls, firstOutcome, completenessVars, appVars>>

\* const scoringSpec = await getScoringSpec()
GetScoringSpec ==
    /\ pc = "getScoringSpec"
    /\ IF cachedData.scoringSpec # <<>>
       THEN /\ pc' = "eliminate"
            /\ UNCHANGED cachedData
       ELSE IF "scoring_spec.json" \in missingFiles
       THEN /\ pc' = "thrown"
            /\ UNCHANGED cachedData
       ELSE /\ cachedData' = [cachedData EXCEPT !.scoringSpec = <<scoringSpec>>]
            /\ pc' = "eliminate"
    /\ UNCHANGED <<preferences, scoringSpec, planVars, compareVars, plansFile,
                   missingFiles, recLocals, calls, firstOutcome,
                   completenessVars, appVars>>

\* Step 1, and the start of the scoring callbacks of step 2.
Eliminate ==
    /\ pc = "eliminate"
    /\ filteredPlans' = applyEliminationRules(allPlans, preferences)
    /\ scoredPlans' = [i \in 1..Len(filteredPlans') |-> <<>>]
    /\ tasksDone' = {}
    /\ pc' = "score"
    /\ UNCHANGED <<preferences, scoringSpec, planVars, compareVars, plansFile,
                   missingFiles, cachedData, allPlans, results, calls,
                   firstOutcome, completenessVars, appVars>>

\* Step 2: one scoring callback completes (in any order).
ScoreTask ==
    /\ pc = "score"
    /\ \E i \in (1..Len(filteredPlans)) \ tasksDone :
          LET r == scorePlan(filteredPlans[i], preferences,
                             cachedData.scoringSpec[1])
          IN  /\ scoredPlans' =
                    StoreScore(scoredPlans, i,
                               [plan |-> filteredPlans[i], score |-> r.score,
                                breakdown |-> r.breakdown,
                                verificationFlags |-> r.verificationFlags])
              /\ tasksDone' = tasksDone \cup {i}
    /\ UNCHANGED <<preferences, scoringSpec, planVars, compareVars, plansFile,
                   missingFiles, cachedData, pc, allPlans, filteredPlans,
                   results, calls, firstOutcome, completenessVars, appVars>>

\* Steps 3 to 5 once Promise.all has resolved: sort, slice, build, return.
Finish ==
    /\ pc = "score"
    /\ tasksDone = 1..Len(filteredPlans)
    /\ scoredPlans' = SortPlans([i \in 1..Len(scoredPlans) |-> scoredPlans[i][1]])
    /\ results' = BuildResults(scoredPlans')
    /\ pc' = "returned"
    /\ UNCHANGED <<preferences, scoringSpec, planVars, compareVars, plansFile,
                   missingFiles, cachedData, allPlans, filteredPlans,
                   tasksDone, calls, firstOutcome, completenessVars, appVars>>

PlanNames == <<"P1", "P2", "P3", "P4", "P5", "P6">>

\* The plans of plans.json: tier, maternity cover and completeness vary.
PlanPool ==
    {[KnownPlan("", tier, co) EXCEPT !.maternity_cover = mat] :
        tier \in {"BASIC", "HIGH"}, mat \in {"true", "false", "null"},
        co \in {<<6>>, <<9>>}}

Catalogs ==
    UNION {{[i \in 1..n |-> [c[i] EXCEPT !.plan_name = PlanNames[i]]] :
              c \in [1..n -> PlanPool]} : n \in 0..MaxPlans}

\* Preferences as the quiz components build them: booleans, or the strings
\* a radio group turns them into.
RecPreferences ==
    {[NoPreferences EXCEPT !.maternityNeeded = mat, !.gpVisits = gp,
                           !.priceSensitivity = price] :
        mat \in {"undefined", "true", "false", "'true'", "'false'"},
        gp \in {"undefined", "true"},
        price \in {"undefined", "BUDGET"}}

Init ==
    /\ plansFile \in Catalogs
    /\ missingFiles \in {{}, {"plans.json"}, {"scoring_spec.json"}}
    /\ preferences \in RecPreferences
    /\ scoringSpec \in ScoringSpecs
    /\ cachedData = [plans |-> <<>>, scoringSpec |-> <<>>]
    /\ pc = "idle"
    /\ allPlans = <<>> /\ filteredPlans = <<>> /\ tasksDone = {}
    /\ scoredPlans = <<>> /\ results = <<>>
    /\ calls = 0
    /\ firstOutcome = NotRun
    /\ PlanIdle
    /\ CompareIdle
    /\ CompletenessIdle
    /\ AppIdle

Next == Call \/ GetPlans \/ GetScoringSpec \/ Eliminate \/ ScoreTask \/ Finish

Spec == Init /\ [][Next]_vars

(***************************************************************************)
(* Engine v2: calculateCompletenessScore                                   *)
(***************************************************************************)
keyFields ==
    <<"hospitalCover", "outpatientCover", "gpVisits", "maternityIncluded",
      "mentalHealthCover", "overseasEmergency", "semiPrivateRoom",
      "privateRoom", "excessRequired">>

\* Exact fractions: a / b - c / d
Frac(n, d) == [num |-> n, den |-> d]
FracSub(x, y) == Frac(x.num * y.den - y.num * x.den, x.den * y.den)
FracEq(x, y) == x.num * y.den = y.num * x.den
FracLeq(x, y) == x.num * y.den <= y.num * x.den

\* Variant of nullCount: only `value === null` is counted.
nullCount_nullOnly(p) ==
    Cardinality({i \in 1..Len(keyFields) : p[keyFields[i]] = "null"})

\* keyFields.forEach(... if (value === null || value === undefined) nullCount++)
nullCount(p) ==
    Cardinality({i \in 1..Len(keyFields) : IsNullish(p[keyFields[i]])})

\* return 1 - nullCount / keyFields.length
calculateCompletenessScore(p) ==
    FracSub(Frac(1, 1), Frac(nullCount(p), Len(keyFields)))

\* A key field holds a known truthy value, a known falsy value, null, or is
\* absent from the object.
KeyFieldValues == {"true", "false", "null", "undefined"}

InitCompleteness ==
    /\ v2plan \in [{keyFields[i] : i \in 1..Len(keyFields)} -> KeyFieldValues]
    /\ completenessScore = NotRun
    /\ preferences = NoPreferences
    /\ scoringSpec = EmptySpec
    /\ PlanIdle
    /\ CompareIdle
    /\ RecIdle
    /\ AppIdle

\* calculateCompletenessScore(v2plan)
CalculateCompleteness ==
    /\ v2plan # NotRun
    /\ completenessScore = NotRun
    /\ completenessScore' = <<calculateCompletenessScore(v2plan)>>
    /\ UNCHANGED <<preferences, scoringSpec, planVars, compareVars, recVars,
                   v2plan, appVars>>

NextCompleteness == CalculateCompleteness

SpecCompleteness == InitCompleteness /\ [][NextCompleteness]_vars

(***************************************************************************)
(* Adaptive ranking engine: calculateDiscriminativePower                   *)
(***************************************************************************)
\* SpecPower: the three counts range over 0..MaxCount.
MaxCount == 4

\* Variant of calculateDiscriminativePower: no `totalPlans === 0` guard, so
\* the division by zero is made (a fraction with denominator 0).
calculateDiscriminativePower_noGuard(questionKey, plansWithYes, plansWithNo, totalPlans) ==
    Frac(Abs(plansWithYes - plansWithNo), totalPlans)

\* Variant of calculateDiscriminativePower: the `× 100` of the doc comment
\* is applied.
calculateDiscriminativePower_percent(questionKey, plansWithYes, plansWithNo, totalPlans) ==
    IF totalPlans = 0 THEN Frac(0, 1)
    ELSE Frac(Abs(plansWithYes - plansWithNo) * 100, totalPlans)

\* Variant of calculateDiscriminativePower: the difference without Math.abs.
calculateDiscriminativePower_noAbs(questionKey, plansWithYes, plansWithNo, totalPlans) ==
    IF totalPlans = 0 THEN Frac(0, 1)
    ELSE Frac(plansWithYes - plansWithNo, totalPlans)

\* The number returned, as an exact fraction.
calculateDiscriminativePower(questionKey, plansWithYes, plansWithNo, totalPlans) ==
    IF totalPlans = 0 THEN Frac(0, 1)
    ELSE LET difference == Abs(plansWithYes - plansWithNo)
         IN  Frac(difference, totalPlans)

PowerQuestionKeys == {"hospitalCover", "maternity"}

\* The counts of the documented example.
ExampleCounts == [plansWithYes |-> 150, plansWithNo |-> 122, totalPlans |-> 272]

PowerCounts ==
    [plansWithYes : 0..MaxCount, plansWithNo : 0..MaxCount,
     totalPlans : 0..MaxCount] \cup {ExampleCounts}

InitPower ==
    /\ \E key \in PowerQuestionKeys, c \in PowerCounts :
          powerCall = [questionKey   |-> key,
                       plansWithYes  |-> c.plansWithYes,
                       plansWithNo   |-> c.plansWithNo,
                       totalPlans    |-> c.totalPlans]
    /\ power = NotRun
    /\ EngineIdle
    /\ RestIdle
    /\ QuizIdle
    /\ PageIdle
    /\ FilterIdle

\* calculateDiscriminativePower(questionKey, plansWithYes, plansWithNo, totalPlans)
CalculatePower ==
    /\ powerCall # NotRun
    /\ power = NotRun
    /\ power' = <<calculateDiscriminativePower(
                     powerCall.questionKey, powerCall.plansWithYes,
                     powerCall.plansWithNo, powerCall.totalPlans)>>
    /\ UNCHANGED <<engineVars, restVars, filterVars, powerCall, quizVars, pageVars>>

NextPower == CalculatePower

SpecPower == InitPower /\ [][NextPower]_vars

(***************************************************************************)
(* Adaptive quiz: question ranking                                         *)
(***************************************************************************)
\* SpecQuiz: discriminativePower ranges over 0..MaxPower tenths.
MaxPower == 2

\* SpecQuiz: largest number of sessions started.
MaxSessions == 2

\* SpecQuiz: number of requests served.
MaxClock == 8

\* The question keys of the table, in the order of their questionKey.
QuizKeys == <<"gpVisits", "hospitalLevel", "maternity">>

QuizKeySet == {QuizKeys[i] : i \in 1..Len(QuizKeys)}

\* The rows of `SELECT ... FROM "QuestionStatistics" WHERE "isActive" = true`.
ActiveQuestions(table) ==
    {[questionKey         |-> k,
      discriminativePower |-> table[k].discriminativePower,
      isActive            |-> TRUE] :
        k \in {q \in DOMAIN table : table[q].isActive}}

\* `ORDER BY "discriminativePower" DESC`: the row orders the database may
\* supply; rows of equal discriminativePower come in any order.
QueryActiveQuestions(table) ==
    LET rows == ActiveQuestions(table)
        n == Cardinality(rows)
    IN  {rs \in [1..n -> rows] :
            /\ \A i, j \in 1..n : i # j => rs[i] # rs[j]
            /\ \A i, j \in 1..n :
                  i < j => rs[i].discriminativePower >= rs[j].discriminativePower}

\* Variant of RemainingQuestions: the answered questions are not removed.
RemainingQuestions_all(allQuestions, answeredQuestions) == allQuestions

\* allQuestions.filter((q) => !answeredQuestions.includes(q.questionKey))
RemainingQuestions(allQuestions, answeredQuestions) ==
    SelectSeq(allQuestions,
              LAMBDA q : \A i \in 1..Len(answeredQuestions) :
                            answeredQuestions[i] # q.questionKey)

\* q.discriminativePower || 0
PowerOrZero(q) ==
    IF q.discriminativePower = 0 THEN 0 ELSE q.discriminativePower

\* One step of the stable sort with comparator `dpB - dpA`.
InsertQuestion(ranked, q) ==
    LET j == CHOOSE i \in 0..Len(ranked) :
                /\ i = 0 \/ PowerOrZero(q) - PowerOrZero(ranked[i]) <= 0
                /\ \A k \in (i + 1)..Len(ranked) :
                      PowerOrZero(q) - PowerOrZero(ranked[k]) > 0
    IN  SubSeq(ranked, 1, j) \o <<q>> \o SubSeq(ranked, j + 1, Len(ranked))

RECURSIVE RankFrom(_, _)
RankFrom(done, rest) ==
    IF rest = <<>> THEN done
    ELSE RankFrom(InsertQuestion(done, rest[1]), Tail(rest))

\* [...questions].sort((a, b) => dpB - dpA)
rankQuestionsForSession(questions) == RankFrom(<<>>, questions)

\* null is <<>>; a question is <<row>>.
getNextBestQuestion(allQuestions, answeredQuestionKeys) ==
    LET remainingQuestions == RemainingQuestions(allQuestions, answeredQuestionKeys)
    IN  IF remainingQuestions = <<>> THEN <<>>
        ELSE <<rankQuestionsForSession(remainingQuestions)[1]>>

(***************************************************************************)
(* SpecQuiz: the adaptive-quiz routes, called by a client that reports as *)
(* answered the keys of the questions it was given                         *)
(***************************************************************************)
\* The body and status of a NextResponse.json; absent members are <<>>,
\* "undefined" or the empty string.
Response(route, status) ==
    [route        |-> route,
     status       |-> status,
     sessionId    |-> <<>>,
     question     |-> <<>>,
     quizComplete |-> "undefined",
     totalQuestions |-> 0,
     error        |-> ""]

\* The client before start-session: no session, no question, nothing
\* answered (the useState initial values of QuizSectionAdaptive).
NewClient ==
    [sessionId         |-> <<>>,
     sessionStatus     |-> "initializing",
     currentQuestion   |-> <<>>,
     answeredQuestions |-> <<>>,
     loading           |-> FALSE,
     error             |-> FALSE]

\* INSERT INTO "AdaptiveQuizSession" ... VALUES (id, sessionId, 0, '[]', 272,
\* 0, NOW(), NOW()): completedAt is left NULL.
InsertSession(sessions, sid, t) ==
    [id \in DOMAIN sessions \cup {sid} |->
        IF id = sid
        THEN [currentQuestionIndex |-> 0,
              questionsAskedOrder  |-> <<>>,
              updatedAt            |-> t,
              completedAt          |-> <<>>]
        ELSE sessions[id]]

\* UPDATE "AdaptiveQuizSession" SET "updatedAt" = NOW() WHERE "sessionId" = $1
TouchSession(sessions, sid, t) == [sessions EXCEPT ![sid].updatedAt = t]

\* The tables of the questions: any rows over the question keys, no answer
\* recorded yet.
QuestionTables ==
    UNION {[keys -> [discriminativePower : 0..MaxPower,
                     isActive : BOOLEAN,
                     totalResponses : {0}]] : keys \in SUBSET QuizKeySet}

InitQuiz ==
    /\ questionStatistics \in QuestionTables
    /\ quizSessions = <<>>
    /\ questionResponseAnalytics = <<>>
    /\ now = 0
    /\ client = NewClient
    /\ response = NotRun
    /\ EngineIdle
    /\ RestIdle
    /\ PowerIdle
    /\ PageIdle
    /\ FilterIdle

\* POST start-session, the database supplying the active rows as
\* allQuestions: the session is inserted before the rows are looked at.
startSession(allQuestions) ==
    LET createdSessionId == Cardinality(DOMAIN quizSessions) + 1 IN
    [quizSessions |-> InsertSession(quizSessions, createdSessionId, now),
     response     |->
        IF Len(allQuestions) = 0
        THEN <<[Response("start-session", 500)
                  EXCEPT !.error = "No questions available"]>>
        ELSE LET firstQuestion == rankQuestionsForSession(allQuestions)[1] IN
             <<[Response("start-session", 200)
                  EXCEPT !.sessionId = <<createdSessionId>>,
                         !.question = <<firstQuestion.questionKey>>,
                         !.totalQuestions = Len(allQuestions)]>>]

\* The statement of record-answer that throws, if one does: "none", or the
\* INSERT, the UPDATE of "QuestionStatistics" or the UPDATE of the session.
FailurePoints == {"none", "insert", "statistics", "session"}

\* POST record-answer with the given body, when the statement failAt
\* throws: the response and the three tables as the route leaves them.  The
\* statements run one after the other, outside any transaction, and the
\* catch block answers 500 without undoing the ones that succeeded.
recordAnswer(body, failAt) ==
    LET tables(analytics, statistics, sessions, resp) ==
            [questionResponseAnalytics |-> analytics,
             questionStatistics        |-> statistics,
             quizSessions              |-> sessions,
             response                  |-> <<resp>>]
        failed == [Response("record-answer", 500)
                     EXCEPT !.error = "Failed to record answer"]
        inserted ==
            Append(questionResponseAnalytics,
                   [sessionId   |-> body.sessionId[1],
                    questionKey |-> body.questionKey])
        counted ==
            [questionStatistics
               EXCEPT ![body.questionKey].totalResponses = @ + 1]
    IN  IF body.sessionId = <<>> \/ body.questionKey = ""
           \/ body.answer = "undefined"
        THEN tables(questionResponseAnalytics, questionStatistics, quizSessions,
                    [Response("record-answer", 400)
                       EXCEPT !.error = "Missing required fields"])
        ELSE IF body.sessionId[1] \notin DOMAIN quizSessions
        THEN tables(questionResponseAnalytics, questionStatistics, quizSessions,
                    [Response("record-answer", 404)
                       EXCEPT !.error = "Session not found"])
        ELSE IF body.questionKey \notin DOMAIN questionStatistics
        THEN tables(questionResponseAnalytics, questionStatistics, quizSessions,
                    [Response("record-answer", 404)
                       EXCEPT !.error = "Question not found"])
        ELSE IF failAt = "insert"
                \/ (body.answerValue = <<>> /\ body.answer = "null")
        THEN tables(questionResponseAnalytics, questionStatistics, quizSessions,
                    failed)
        ELSE IF failAt = "statistics"
        THEN tables(inserted, questionStatistics, quizSessions, failed)
        ELSE IF failAt = "session"
        THEN tables(inserted, counted, quizSessions, failed)
        ELSE tables(inserted, counted,
                    TouchSession(quizSessions, body.sessionId[1], now),
                    Response("record-answer", 200))

\* POST next-question with the given body, the database supplying the
\* active rows as allQuestions, or throwing (databaseOk is FALSE).
nextQuestion(body, allQuestions, databaseOk) ==
    LET remainingQuestions ==
            RemainingQuestions(allQuestions, body.answeredQuestions)
    IN  IF body.sessionId = <<>>
        THEN [quizSessions |-> quizSessions,
              response     |-> <<[Response("next-question", 400)
                                    EXCEPT !.error = "Session ID is required"]>>]
        ELSE IF ~databaseOk
        THEN [quizSessions |-> quizSessions,
              response     |-> <<[Response("next-question", 500)
                                    EXCEPT !.error = "Failed to fetch next question"]>>]
        ELSE IF body.sessionId[1] \notin DOMAIN quizSessions
        THEN [quizSessions |-> quizSessions,
              response     |-> <<[Response("next-question", 404)
                                    EXCEPT !.error = "Session not found"]>>]
        ELSE IF Len(remainingQuestions) = 0
        THEN [quizSessions |-> quizSessions,
              response     |-> <<[Response("next-question", 200)
                                    EXCEPT !.quizComplete = "true"]>>]
        ELSE LET next == rankQuestionsForSession(remainingQuestions)[1] IN
             [quizSessions |-> TouchSession(quizSessions, body.sessionId[1], now),
              response     |->
                 <<[Response("next-question", 200)
                      EXCEPT !.question = <<next.questionKey>>,
                             !.quizComplete = "false",
                             !.totalQuestions = Len(allQuestions)]>>]

\* POST complete for a session.  The final SELECT on
\* "QuestionResponseAnalytics" may fail (analyticsOk is FALSE), after the
\* UPDATE has been made.
complete(sessionId, analyticsOk) ==
    IF sessionId \notin DOMAIN quizSessions
    THEN [quizSessions |-> quizSessions,
          response     |-> <<[Response("complete", 404)
                                EXCEPT !.error = "Session not found"]>>]
    ELSE [quizSessions |-> TouchSession(quizSessions, sessionId, now),
          response     |->
             IF analyticsOk
             THEN <<[Response("complete", 200) EXCEPT !.sessionId = <<sessionId>>]>>
             ELSE <<[Response("complete", 500)
                       EXCEPT !.error = "Failed to complete quiz"]>>]

\* A client starts: POST start-session, as initializeSession does.
StartSession ==
    /\ client # NotRun
    /\ now < MaxClock
    /\ Cardinality(DOMAIN quizSessions) < MaxSessions
    /\ \E allQuestions \in QueryActiveQuestions(questionStatistics) :
          LET after == startSession(allQuestions) IN
          /\ quizSessions' = after.quizSessions
          /\ response' = after.response
          /\ client' =
                IF after.response[1].status # 200
                THEN [NewClient EXCEPT !.error = TRUE]
                ELSE [NewClient
                        EXCEPT !.sessionId = after.response[1].sessionId,
                               !.currentQuestion = after.response[1].question,
                               !.sessionStatus = "in-progress"]
    /\ now' = now + 1
    /\ UNCHANGED <<engineVars, restVars, filterVars, powerVars, questionStatistics,
                   questionResponseAnalytics, pageVars>>

\* The client answers the question it was given: POST record-answer, as the
\* first fetch of handleNext; the response is not read.
RecordAnswer ==
    /\ client # NotRun
    /\ now < MaxClock
    /\ client.sessionStatus = "in-progress"
    /\ ~client.loading
    /\ client.sessionId # <<>>
    /\ client.currentQuestion # <<>>
    /\ \E failAt \in FailurePoints :
          LET body == [sessionId   |-> client.sessionId,
                       questionKey |-> client.currentQuestion[1],
                       answer      |-> "option1",
                       answerValue |-> <<"option1">>]
              after == recordAnswer(body, failAt)
          IN  /\ questionResponseAnalytics' = after.questionResponseAnalytics
              /\ questionStatistics' = after.questionStatistics
              /\ quizSessions' = after.quizSessions
              /\ response' = after.response
    /\ client' = [client EXCEPT
                    !.answeredQuestions = Append(@, client.currentQuestion[1]),
                    !.loading = TRUE]
    /\ now' = now + 1
    /\ UNCHANGED <<engineVars, restVars, filterVars, powerVars, pageVars>>

\* The client reports the keys it has answered: POST next-question, as the
\* second fetch of handleNext; the next question is taken up, or the client
\* goes on to complete.
NextQuestion ==
    /\ client # NotRun
    /\ now < MaxClock
    /\ client.sessionStatus = "in-progress"
    /\ client.loading
    /\ \E allQuestions \in QueryActiveQuestions(questionStatistics) :
          LET body == [sessionId         |-> client.sessionId,
                       answeredQuestions |-> client.answeredQuestions]
              after == nextQuestion(body, allQuestions, TRUE)
          IN  /\ quizSessions' = after.quizSessions
              /\ response' = after.response
              /\ client' =
                    IF after.response[1].status # 200
                    THEN [client EXCEPT !.error = TRUE, !.loading = FALSE]
                    ELSE IF after.response[1].quizComplete = "true"
                    THEN [client EXCEPT !.sessionStatus = "completing"]
                    ELSE [client EXCEPT
                            !.currentQuestion = after.response[1].question,
                            !.loading = FALSE]
    /\ now' = now + 1
    /\ UNCHANGED <<engineVars, restVars, filterVars, powerVars, questionStatistics,
                   questionResponseAnalytics, pageVars>>

\* The client ends the session: POST complete, as completeQuiz does; the
\* response is not read.
Complete ==
    /\ client # NotRun
    /\ now < MaxClock
    /\ client.sessionStatus = "completing"
    /\ \E analyticsOk \in BOOLEAN :
          LET after == complete(client.sessionId[1], analyticsOk) IN
          /\ quizSessions' = after.quizSessions
          /\ response' = after.response
    /\ client' = [client EXCEPT !.sessionStatus = "completed", !.loading = FALSE]
    /\ now' = now + 1
    /\ UNCHANGED <<engineVars, restVars, filterVars, powerVars, questionStatistics,
                   questionResponseAnalytics, pageVars>>

NextQuiz == StartSession \/ RecordAnswer \/ NextQuestion \/ Complete

SpecQuiz == InitQuiz /\ [][NextQuiz]_vars

(***************************************************************************)
(* SpecPage: the home page, its consent gate and its quiz                  *)
(***************************************************************************)
\* SpecPage: number of questions of the quiz.
MaxQuestions == 3

\* The ids of the first questions of QUIZ_QUESTIONS.
QuestionIds ==
    <<"family-composition", "age-group", "hospital-level",
      "day-case-procedures", "consultant-choice">>

QUIZ_QUESTIONS == SubSeq(QuestionIds, 1, MaxQuestions)

\* The useState initial values of Home.
NewHome ==
    [pageState |-> "consent",
     results   |-> <<>>,
     stats     |-> "null",
     loading   |-> TRUE,
     error     |-> "null"]

\* The useState initial values of ConsentGate and of QuizSection.
NewConsentGate == <<[showDetails |-> FALSE, hasConsented |-> FALSE]>>

NewQuizSection ==
    <<[currentQuestion |-> 0, answers |-> [id \in {} |-> "yes"], error |-> ""]>>

\* What the page renders below the header.
Rendered(h) ==
    IF h.loading THEN "loading"
    ELSE IF h.error # "null" THEN "error"
    ELSE h.pageState

\* The lists getRecommendationsV3 hands to onComplete.
ResultLists == {<<>>, <<"P1">>, <<"P1", "P2">>}

InitPage ==
    /\ home = <<NewHome>>
    /\ consentGate = NotRun
    /\ analytics_consent \in {"null", "true", "false"}
    /\ quizSection = NotRun
    /\ EngineIdle
    /\ RestIdle
    /\ PowerIdle
    /\ QuizIdle
    /\ FilterIdle

\* The effect of Home: loadAllBlueprintData resolves or rejects.
InitializeBlueprint ==
    /\ home # NotRun
    /\ home[1].loading
    /\ \E loaded \in BOOLEAN :
          IF loaded
          THEN /\ home' = <<[home[1] EXCEPT !.loading = FALSE]>>
               /\ consentGate' = NewConsentGate
          ELSE /\ home' = <<[home[1] EXCEPT !.loading = FALSE,
                                            !.error = "Failed to load blueprint data"]>>
               /\ UNCHANGED consentGate
    /\ UNCHANGED <<engineVars, restVars, filterVars, powerVars, quizVars, analytics_consent, quizSection>>

\* The `What data do we collect?` button of ConsentGate.
ToggleDetails ==
    /\ home # NotRun
    /\ Rendered(home[1]) = "consent"
    /\ consentGate' = <<[consentGate[1] EXCEPT !.showDetails = ~@]>>
    /\ UNCHANGED <<engineVars, restVars, filterVars, powerVars, quizVars, home, analytics_consent,
                   quizSection>>

\* Home.handleConsentAccept: it takes no argument.
handleConsentAccept(h) == [h EXCEPT !.pageState = "quiz"]

\* ConsentGate.handleConsent(consent), for `Accept Analytics` (true) and
\* `Decline` (false): the choice is stored and onAccept(consent), that is
\* Home.handleConsentAccept, is called; the page then shows the quiz in
\* place of the gate.
HandleConsent ==
    /\ home # NotRun
    /\ Rendered(home[1]) = "consent"
    /\ \E consent \in BOOLEAN :
          analytics_consent' = IF consent THEN "true" ELSE "false"
    /\ home' = <<handleConsentAccept(home[1])>>
    /\ consentGate' = NotRun
    /\ quizSection' = NewQuizSection
    /\ UNCHANGED <<engineVars, restVars, filterVars, powerVars, quizVars>>

\* QuizSection.handleAnswer(value)
HandleAnswer ==
    /\ home # NotRun
    /\ Rendered(home[1]) = "quiz"
    /\ LET q == quizSection[1]
           id == QUIZ_QUESTIONS[q.currentQuestion + 1]
       IN  \E value \in {"yes", "no"} :
              quizSection' =
                 <<[q EXCEPT !.answers =
                        [k \in DOMAIN q.answers \cup {id} |->
                            IF k = id THEN value ELSE q.answers[k]],
                      !.error = ""]>>
    /\ UNCHANGED <<engineVars, restVars, filterVars, powerVars, quizVars, home, consentGate,
                   analytics_consent>>

\* QuizSection.handleNext: the button is shown before the last question and
\* enabled once the question is answered.
HandlePageNext ==
    /\ home # NotRun
    /\ Rendered(home[1]) = "quiz"
    /\ LET q == quizSection[1] IN
       /\ q.currentQuestion # Len(QUIZ_QUESTIONS) - 1
       /\ QUIZ_QUESTIONS[q.currentQuestion + 1] \in DOMAIN q.answers
       /\ quizSection' = <<[q EXCEPT !.currentQuestion = @ + 1]>>
    /\ UNCHANGED <<engineVars, restVars, filterVars, powerVars, quizVars, home, consentGate,
                   analytics_consent>>

\* QuizSection.handlePrevious: disabled on the first question.
HandlePagePrevious ==
    /\ home # NotRun
    /\ Rendered(home[1]) = "quiz"
    /\ quizSection[1].currentQuestion # 0
    /\ quizSection' = <<[quizSection[1] EXCEPT !.currentQuestion = @ - 1]>>
    /\ UNCHANGED <<engineVars, restVars, filterVars, powerVars, quizVars, home, consentGate,
                   analytics_consent>>

\* QuizSection.handleSubmit on the last question: getRecommendationsV3
\* returns and Home.handleQuizComplete shows the results, or it throws and
\* the quiz shows the error.
HandleSubmit ==
    /\ home # NotRun
    /\ Rendered(home[1]) = "quiz"
    /\ LET q == quizSection[1] IN
       /\ q.currentQuestion = Len(QUIZ_QUESTIONS) - 1
       /\ QUIZ_QUESTIONS[q.currentQuestion + 1] \in DOMAIN q.answers
       /\ \/ \E quizResults \in ResultLists :
                /\ home' = <<[home[1] EXCEPT !.results = quizResults,
                                             !.stats = "stats",
                                             !.pageState = "results"]>>
                /\ quizSection' = NotRun
          \/ /\ quizSection' =
                   <<[q EXCEPT !.error = "Failed to get recommendations"]>>
             /\ UNCHANGED home
    /\ UNCHANGED <<engineVars, restVars, filterVars, powerVars, quizVars, consentGate, analytics_consent>>

\* Home.handleResultsComplete
HandleResultsComplete ==
    /\ home # NotRun
    /\ Rendered(home[1]) = "results"
    /\ home' = <<[home[1] EXCEPT !.pageState = "stats"]>>
    /\ UNCHANGED <<engineVars, restVars, filterVars, powerVars, quizVars, consentGate,
                   analytics_consent, quizSection>>

\* Home.handleRestart, from the results and from the statistics panel.
HandleRestart ==
    /\ home # NotRun
    /\ Rendered(home[1]) \in {"results", "stats"}
    /\ home' = <<[home[1] EXCEPT !.results = <<>>, !.stats = "null",
                                 !.pageState = "quiz"]>>
    /\ quizSection' = NewQuizSection
    /\ UNCHANGED <<engineVars, restVars, filterVars, powerVars, quizVars, consentGate, analytics_consent>>

NextPage ==
    \/ InitializeBlueprint \/ ToggleDetails \/ HandleConsent
    \/ HandleAnswer \/ HandlePageNext \/ HandlePagePrevious \/ HandleSubmit
    \/ HandleResultsComplete \/ HandleRestart

SpecPage == InitPage /\ [][NextPage]_vars

(***************************************************************************)
(* Engine v2: passesHardFilters and filterPlans                            *)
(***************************************************************************)
\* SpecFilter: largest number of plans given to filterPlans.
MaxFilterPlans == 2

\* The three hard filters: the preference that asks for a benefit and the
\* plan field that tells whether the plan has it.
HardFilters ==
    <<[need |-> "needsMaternity",    field |-> "maternityIncluded"],
      [need |-> "needsMentalHealth", field |-> "mentalHealthCover"],
      [need |-> "needsOverseas",     field |-> "overseasEmergency"]>>

\* Variant of passesHardFilters: the test written `!plan.x`, as engine v3
\* writes it.
passesHardFilters_falsy(p, prefs) ==
    \A i \in 1..Len(HardFilters) :
        ~(Truthy(prefs[HardFilters[i].need]) /\ ~Truthy(p[HardFilters[i].field]))

\* `if (preferences.needsX && plan.x === false) return false`, three times,
\* then `return true`.
passesHardFilters(p, prefs) ==
    \A i \in 1..Len(HardFilters) :
        ~(Truthy(prefs[HardFilters[i].need]) /\ p[HardFilters[i].field] = "false")

\* plans.filter((plan) => passesHardFilters(plan, preferences))
filterPlans(plans, prefs) ==
    SelectSeq(plans, LAMBDA p : passesHardFilters(p, prefs))

\* Engine-v2 plans: maternity and mental-health cover are known, null or
\* absent; overseas cover is known.
FilterPlanPool ==
    [name              : {""},
     maternityIncluded : KeyFieldValues,
     mentalHealthCover : KeyFieldValues,
     overseasEmergency : {"true", "false"}]

FilterPlanLists ==
    UNION {{[i \in 1..n |-> [c[i] EXCEPT !.name = PlanNames[i]]] :
              c \in [1..n -> FilterPlanPool]} : n \in 0..MaxFilterPlans}

\* A requirement is asked for, declined, or not answered.
FilterPreferences ==
    [needsMaternity    : {"true", "false", "undefined"},
     needsMentalHealth : {"true", "false", "undefined"},
     needsOverseas     : {"true", "false", "undefined"}]

InitFilter ==
    /\ \E plans \in FilterPlanLists, prefs \in FilterPreferences :
          filterArgs = <<[plans |-> plans, preferences |-> prefs]>>
    /\ keptPlans = NotRun
    /\ EngineIdle
    /\ RestIdle
    /\ PowerIdle
    /\ QuizIdle
    /\ PageIdle

\* filterPlans(plans, preferences)
FilterPlans ==
    /\ filterArgs # NotRun
    /\ keptPlans = NotRun
    /\ keptPlans' = <<filterPlans(filterArgs[1].plans, filterArgs[1].preferences)>>
    /\ UNCHANGED <<engineVars, restVars, powerVars, quizVars, pageVars, filterArgs>>

NextFilter == FilterPlans

SpecFilter == InitFilter /\ [][NextFilter]_vars

(***************************************************************************)
(* Service engine: generateRecommendations                                 *)
(* Points are tenths of a point (15 points is 150) and a matchPercentage   *)
(* is a number of tenths of a percent.                                     *)
(***************************************************************************)
\* SpecService: largest number of rows of the "Plan" table.
MaxServicePlans == 2

Smaller(a, b) == IF a < b THEN a ELSE b
Larger(a, b) == IF a < b THEN b ELSE a

\* A preference that passes `if (preferences.x)`.
Provided(v) == v \notin {"undefined", "null", ""}

\* budgetMap; the max of '200+', Infinity, is <<>>.
budgetMap ==
    [r \in {"under-50", "50-100", "100-150", "150-200", "200+"} |->
        [max    |-> CASE r = "under-50" -> <<50>>
                      [] r = "50-100"   -> <<100>>
                      [] r = "100-150"  -> <<150>>
                      [] r = "150-200"  -> <<200>>
                      [] r = "200+"     -> <<>>,
         points |-> 300]]

scoreBudget(budgetRange, monthlyPremium) ==
    IF budgetRange \notin DOMAIN budgetMap THEN 0
    ELSE LET budget == budgetMap[budgetRange] IN
         IF budget.max = <<>> \/ monthlyPremium <= budget.max[1]
         THEN budget.points
         ELSE LET overage == monthlyPremium - budget.max[1]
                  penalty == Smaller(budget.points, overage)
              IN  Larger(0, budget.points - penalty)

\* coverageMap[coverageType](p)
coverageMatches(coverageType, p) ==
    CASE coverageType = "basic" ->
            ~Truthy(p.hospitalCover) /\ ~Truthy(p.consultantChoice)
      [] coverageType = "comprehensive" ->
            Truthy(p.hospitalCover) /\ Truthy(p.consultantChoice)
      [] coverageType = "premium" ->
            /\ Truthy(p.hospitalCover) /\ Truthy(p.consultantChoice)
            /\ Truthy(p.dentalCover) /\ Truthy(p.opticalCover)

scoreCoverageType(coverageType, p) ==
    IF coverageType \notin {"basic", "comprehensive", "premium"} THEN 0
    ELSE IF coverageMatches(coverageType, p) THEN 250 ELSE 100

scoreHospitalCover(preference, planHasCover) ==
    CASE preference = "yes"   -> IF Truthy(planHasCover) THEN 150 ELSE 0
      [] preference = "no"    -> IF ~Truthy(planHasCover) THEN 150 ELSE 50
      [] preference = "maybe" -> IF Truthy(planHasCover) THEN 100 ELSE 50
      [] OTHER -> 0

scoreConsultantChoice(preference, planHasCover) ==
    CASE preference = "important"     -> IF Truthy(planHasCover) THEN 150 ELSE 0
      [] preference = "somewhat"      -> IF Truthy(planHasCover) THEN 100 ELSE 50
      [] preference = "not-important" -> 150
      [] OTHER -> 0

scoreDentalOptical(preference, hasDental, hasOptical) ==
    CASE preference = "both" ->
            IF Truthy(hasDental) /\ Truthy(hasOptical) THEN 200
            ELSE IF Truthy(hasDental) \/ Truthy(hasOptical) THEN 100 ELSE 0
      [] preference = "dental-only" ->
            IF Truthy(hasDental) THEN 200
            ELSE IF Truthy(hasOptical) THEN 50 ELSE 0
      [] preference = "optical-only" ->
            IF Truthy(hasOptical) THEN 200
            ELSE IF Truthy(hasDental) THEN 50 ELSE 0
      [] preference = "none" -> 200
      [] OTHER -> 0

\* scoreMaternityExtras, scoreMenopauseBenefit, scorePhysioRehab and
\* scoreMentalHealthSupport have the same body.
scoreYesNo(preference, planHasCover) ==
    CASE preference = "yes"            -> IF Truthy(planHasCover) THEN 100 ELSE 0
      [] preference = "no"             -> 100
      [] preference = "not-applicable" -> 100
      [] OTHER -> 0

\* scoreDayToDayBenefits and scorePrescriptionCover have the same body.
scoreImportance(preference, planHasCover) ==
    CASE preference = "important"     -> IF Truthy(planHasCover) THEN 100 ELSE 0
      [] preference = "somewhat"      -> IF Truthy(planHasCover) THEN 70 ELSE 30
      [] preference = "not-important" -> 100
      [] OTHER -> 0

\* The categories of the breakdown, in the order they are pushed, each with
\* the preference that it reads.
ServiceCategories ==
    << [category |-> "Budget Match",          preference |-> "budgetRange"],
       [category |-> "Coverage Type",         preference |-> "coverageType"],
       [category |-> "Hospital Cover",        preference |-> "hospitalCover"],
       [category |-> "Consultant Choice",     preference |-> "consultantChoice"],
       [category |-> "Dental & Optical",      preference |-> "dentalOptical"],
       [category |-> "Maternity Extras",      preference |-> "maternityExtras"],
       [category |-> "Day-to-Day Benefits",   preference |-> "dayToDayBenefits"],
       [category |-> "Menopause Benefit",     preference |-> "menopauseBenefit"],
       [category |-> "Prescription Cover",    preference |-> "prescriptionCover"],
       [category |-> "Physio & Rehab",        preference |-> "physioRehab"],
       [category |-> "Mental Health Support", preference |-> "mentalHealthSupport"] >>

\* The points of one category for a preference that was provided.
CategoryScore(key, value, p) ==
    CASE key = "budgetRange"         -> scoreBudget(value, p.monthlyPremium)
      [] key = "coverageType"        -> scoreCoverageType(value, p)
      [] key = "hospitalCover"       -> scoreHospitalCover(value, p.hospitalCover)
      [] key = "consultantChoice"    -> scoreConsultantChoice(value, p.consultantChoice)
      [] key = "dentalOptical"       ->
            scoreDentalOptical(value, p.dentalCover, p.opticalCover)
      [] key = "maternityExtras"     -> scoreYesNo(value, p.maternityExtras)
      [] key = "dayToDayBenefits"    -> scoreImportance(value, p.dayToDayBenefits)
      [] key = "menopauseBenefit"    -> scoreYesNo(value, p.menopauseBenefit)
      [] key = "prescriptionCover"   -> scoreImportance(value, p.prescriptionCover)
      [] key = "physioRehab"         -> scoreYesNo(value, p.physioRehab)
      [] key = "mentalHealthSupport" -> scoreYesNo(value, p.mentalHealthSupport)

RECURSIVE SumBreakdown(_)
SumBreakdown(bd) ==
    IF bd = <<>> THEN 0 ELSE bd[1].points + SumBreakdown(Tail(bd))

\* The callback of plans.map: one ScoredPlan.
ScoreServicePlan(p, prefs) ==
    LET breakdown ==
            [i \in 1..Len(ServiceCategories) |->
                LET key == ServiceCategories[i].preference IN
                [category |-> ServiceCategories[i].category,
                 points   |-> IF Provided(prefs[key])
                              THEN CategoryScore(key, prefs[key], p)
                              ELSE 0]]
        totalScore == SumBreakdown(breakdown)
    IN  [planId          |-> p.id,
         planName        |-> p.name,
         monthlyPremium  |-> p.monthlyPremium,
         totalScore      |-> totalScore,
         scoreBreakdown  |-> breakdown,
         matchPercentage |-> RoundDiv(totalScore * 100, 165)]

\* The plan names, in the order of localeCompare.
ServicePlanNames == <<"A", "B", "C">>

NameRank(name) ==
    CHOOSE i \in 1..Len(ServicePlanNames) : ServicePlanNames[i] = name

\* The comparator of applyTieBreakerLogic.
tieBreaker(a, b) ==
    IF a.totalScore # b.totalScore THEN b.totalScore - a.totalScore
    ELSE IF a.monthlyPremium # b.monthlyPremium
    THEN a.monthlyPremium - b.monthlyPremium
    ELSE NameRank(a.planName) - NameRank(b.planName)

\* One step of the stable sort with that comparator.
InsertScored(sorted, x) ==
    LET j == CHOOSE i \in 0..Len(sorted) :
                /\ i = 0 \/ tieBreaker(x, sorted[i]) >= 0
                /\ \A k \in (i + 1)..Len(sorted) : tieBreaker(x, sorted[k]) < 0
    IN  SubSeq(sorted, 1, j) \o <<x>> \o SubSeq(sorted, j + 1, Len(sorted))

RECURSIVE TieBreakFrom(_, _)
TieBreakFrom(done, rest) ==
    IF rest = <<>> THEN done
    ELSE TieBreakFrom(InsertScored(done, rest[1]), Tail(rest))

applyTieBreakerLogic(plans) == TieBreakFrom(<<>>, plans)

\* The number of preferences that are not undefined.
answeredCount(prefs) == Cardinality({k \in DOMAIN prefs : prefs[k] # "undefined"})

\* generateRecommendations(sessionId, preferences) over the "Plan" table
\* given, the database answering every statement: the rows it inserts into
\* "SessionPlan" and what it returns or throws.  Reading sortedPlans[0] of an
\* empty array is a TypeError, which the catch block turns into the Error
\* 'Failed to generate recommendations'.
generateRecommendations(sessionId, table, prefs) ==
    LET plans == SelectSeq(table, LAMBDA p : p.isActive)
        scored == [i \in 1..Len(plans) |-> ScoreServicePlan(plans[i], prefs)]
        sortedPlans == applyTieBreakerLogic(scored)
        rows == [i \in 1..Len(sortedPlans) |->
                    [sessionId |-> sessionId,
                     planId    |-> sortedPlans[i].planId,
                     score     |-> sortedPlans[i].totalScore,
                     rank      |-> i]]
    IN  [inserted |-> rows,
         result   |->
            IF sortedPlans = <<>>
            THEN [status             |-> "thrown",
                  error              |-> "Failed to generate recommendations",
                  topRecommendation  |-> <<>>,
                  allRecommendations |-> <<>>,
                  totalPlansScored   |-> 0,
                  scoringNotes       |-> <<>>]
            ELSE [status             |-> "returned",
                  error              |-> "",
                  topRecommendation  |-> <<sortedPlans[1]>>,
                  allRecommendations |-> sortedPlans,
                  totalPlansScored   |-> Len(plans),
                  scoringNotes       |-> <<Len(plans), answeredCount(prefs),
                                           sortedPlans[1].totalScore,
                                           sortedPlans[1].matchPercentage>>]]

(***************************************************************************)
(* SpecService: generateRecommendations over a small "Plan" table          *)
(***************************************************************************)
BenefitValues == {"true", "false", "null"}

\* The monthly premium of the i-th row.
ServicePremiums == <<45, 65, 65>>

\* The i-th row of the table: its hospitalCover and its other benefits are
\* known to be present, known to be absent, or unknown.
ServicePlanRows(i) ==
    {[id                  |-> i,
      name                |-> ServicePlanNames[i],
      monthlyPremium      |-> ServicePremiums[i],
      isActive            |-> active,
      hospitalCover       |-> hospital,
      consultantChoice    |-> other,
      dentalCover         |-> other,
      opticalCover        |-> other,
      maternityExtras     |-> other,
      dayToDayBenefits    |-> other,
      menopauseBenefit    |-> other,
      prescriptionCover   |-> other,
      physioRehab         |-> other,
      mentalHealthSupport |-> other] :
        active \in BOOLEAN, hospital \in BenefitValues, other \in BenefitValues}

ServiceTables ==
    UNION {{t \in [1..n -> UNION {ServicePlanRows(i) : i \in 1..n}] :
               \A i \in 1..n : t[i] \in ServicePlanRows(i)} :
           n \in 0..MaxServicePlans}

PreferenceKeys ==
    {"ageGroup", "budgetRange", "coverageType", "hospitalCover",
     "consultantChoice", "dentalOptical", "maternityExtras",
     "dayToDayBenefits", "menopauseBenefit", "prescriptionCover",
     "physioRehab", "mentalHealthSupport"}

NoServicePreferences == [k \in PreferenceKeys |-> "undefined"]

\* The answers that the scoring function of a preference knows.
PreferenceValues(k) ==
    CASE k = "coverageType"  -> {"basic", "comprehensive", "premium"}
      [] k = "hospitalCover" -> {"yes", "no", "maybe"}
      [] k \in {"consultantChoice", "dayToDayBenefits", "prescriptionCover"} ->
            {"important", "somewhat", "not-important"}
      [] k = "dentalOptical" -> {"both", "dental-only", "optical-only", "none"}
      [] k \in {"maternityExtras", "menopauseBenefit", "physioRehab",
                "mentalHealthSupport"} -> {"yes", "no", "not-applicable"}
      [] OTHER -> {}

\* The budget answered or not, and at most one other question answered.
ServicePreferences ==
    {[[NoServicePreferences EXCEPT !.budgetRange = b] EXCEPT ![kv[1]] = kv[2]] :
        b \in {"undefined", "under-50"},
        kv \in {<<"ageGroup", "undefined">>}
               \cup UNION {{<<k, v>> : v \in PreferenceValues(k)} :
                              k \in PreferenceKeys}}

InitService ==
    /\ serviceCall \in [table : ServiceTables, preferences : ServicePreferences]
    /\ serviceResult = NotRun
    /\ sessionPlan = <<>>
    /\ EngineIdle
    /\ PowerIdle
    /\ QuizIdle
    /\ PageIdle
    /\ FilterIdle
    /\ SessionApiIdle
    /\ AdaptiveIdle
    /\ BrowserIdle

GenerateRecommendations ==
    /\ serviceCall # NotRun
    /\ serviceResult = NotRun
    /\ LET call == generateRecommendations("s1", serviceCall.table,
                                           serviceCall.preferences)
       IN  /\ sessionPlan' = sessionPlan \o call.inserted
           /\ serviceResult' = <<call.result>>
    /\ UNCHANGED <<engineVars, powerVars, quizVars, pageVars, filterVars,
                   sessionApiVars, adaptiveVars, browserVars,
                   serviceCall>>

NextService == GenerateRecommendations

SpecService == InitService /\ [][NextService]_vars

(***************************************************************************)
(* The sessions API: POST /api/sessions, PUT and PATCH /api/sessions/:id   *)
(* A column that is NULL holds "null"; the database answers every          *)
(* statement.                                                              *)
(***************************************************************************)
\* SpecSession: largest number of rows of the "Session" table.
MaxStoredSessions == 1

\* SpecSession: number of quiz fields that request bodies may carry.
MaxSessionFields == 2

\* quizFields, in the order of the routes.
quizFields ==
    <<"ageGroup", "budgetRange", "coverageType", "hospitalCover",
      "consultantChoice", "dentalOptical", "maternityExtras",
      "dayToDayBenefits", "menopauseBenefit", "prescriptionCover",
      "physioRehab", "mentalHealthSupport">>

QuizFieldSet == {quizFields[i] : i \in 1..Len(quizFields)}

SessionColumns ==
    QuizFieldSet \cup {"userAgent", "ipAddress", "privacyConsented",
                       "questionsAnswered"}

\* A value that passes filter(Boolean).
Filled(v) == Truthy(v) /\ v # ""

\* request.headers.get(name) || undefined, stored in a nullable column.
HeaderOrNull(header) ==
    IF header = <<>> \/ header[1] = "" THEN "null" ELSE header[1]

\* request.headers.get('x-forwarded-for')?.split(',')[0] || undefined: the
\* header is the list of the addresses it names.
FirstForwardedFor(header) ==
    IF header = <<>> THEN "null" ELSE header[1]

\* prisma.session.create({ data: { userAgent, ipAddress,
\* privacyConsented: false, questionsAnswered: 0 } })
NewSessionRow(userAgent, ipAddress) ==
    [c \in SessionColumns |->
        CASE c = "userAgent"         -> userAgent
          [] c = "ipAddress"         -> ipAddress
          [] c = "privacyConsented"  -> "false"
          [] c = "questionsAnswered" -> 0
          [] OTHER                   -> "null"]

\* prisma.session.update({ where, data }): the columns named in data are
\* written, null included; the others are left alone.
UpdateRow(row, data) ==
    [c \in DOMAIN row |-> IF c \in DOMAIN data THEN data[c] ELSE row[c]]

\* { ...data, questionsAnswered }
WithQuestionsAnswered(data, questionsAnswered) ==
    [c \in DOMAIN data \cup {"questionsAnswered"} |->
        IF c = "questionsAnswered" THEN questionsAnswered ELSE data[c]]

\* PUT: the data written for a body.
putUpdateData(body) ==
    LET questionsAnswered ==
            Cardinality({f \in QuizFieldSet \cap DOMAIN body : Filled(body[f])})
    IN  WithQuestionsAnswered(body, questionsAnswered)

\* PATCH: the data written for a body, given the stored row.
patchUpdateData(body, existingSession) ==
    LET mergedData ==
            [f \in QuizFieldSet |->
                IF f \in DOMAIN body /\ body[f] # "null"
                THEN body[f] ELSE existingSession[f]]
        questionsAnswered ==
            IF QuizFieldSet \cap DOMAIN body # {}
            THEN Cardinality({f \in QuizFieldSet : Filled(mergedData[f])})
            ELSE existingSession.questionsAnswered
    IN  IF questionsAnswered # existingSession.questionsAnswered
        THEN WithQuestionsAnswered(body, questionsAnswered)
        ELSE body

(***************************************************************************)
(* SpecSession: requests to the sessions API                               *)
(***************************************************************************)
SessionIds == 1..MaxStoredSessions

\* The quiz fields a body may carry, each with a string or null, and
\* privacyConsented.
BodyFields == {quizFields[i] : i \in 1..MaxSessionFields}

SessionBodies ==
    UNION {{b \in [keys -> {"a", "null", "true", "false"}] :
               \A k \in keys :
                  IF k = "privacyConsented" THEN b[k] \in {"true", "false"}
                  ELSE b[k] \in {"a", "null"}} :
           keys \in SUBSET (BodyFields \cup {"privacyConsented"})}

\* The user-agent and x-forwarded-for headers of a POST: a browser behind
\* proxies sends both, a bare client neither.
RequestHeaders ==
    {<<<<>>, <<>>>>, <<<<"Mozilla/5.0">>, <<"203.0.113.7", "10.0.0.1">>>>}

SessionResponse(route, status) == <<[route |-> route, status |-> status]>>

InitSession ==
    /\ sessionTable = <<>>
    /\ sessionResponse = NotRun
    /\ EngineIdle
    /\ PowerIdle
    /\ QuizIdle
    /\ PageIdle
    /\ FilterIdle
    /\ ServiceIdle
    /\ AdaptiveIdle
    /\ BrowserIdle

\* POST /api/sessions
CreateSession ==
    /\ Cardinality(DOMAIN sessionTable) < MaxStoredSessions
    /\ \E headers \in RequestHeaders :
          LET sessionId == Cardinality(DOMAIN sessionTable) + 1
              userAgentHeader == headers[1]
              forwardedFor == headers[2]
              row == NewSessionRow(HeaderOrNull(userAgentHeader),
                                   FirstForwardedFor(forwardedFor))
          IN  sessionTable' =
                 [id \in DOMAIN sessionTable \cup {sessionId} |->
                     IF id = sessionId THEN row ELSE sessionTable[id]]
    /\ sessionResponse' = SessionResponse("POST", 201)
    /\ UNCHANGED <<engineVars, powerVars, quizVars, pageVars, filterVars,
                   serviceVars, adaptiveVars, browserVars>>

\* PUT /api/sessions/:id
PutSession ==
    /\ \E sessionId \in SessionIds, body \in SessionBodies :
          IF sessionId \notin DOMAIN sessionTable
          THEN /\ sessionResponse' = SessionResponse("PUT", 404)
               /\ UNCHANGED sessionTable
          ELSE /\ sessionTable' =
                     [sessionTable EXCEPT
                        ![sessionId] = UpdateRow(@, putUpdateData(body))]
               /\ sessionResponse' = SessionResponse("PUT", 200)
    /\ UNCHANGED <<engineVars, powerVars, quizVars, pageVars, filterVars,
                   serviceVars, adaptiveVars, browserVars>>

\* PATCH /api/sessions/:id
PatchSession ==
    /\ \E sessionId \in SessionIds, body \in SessionBodies :
          IF sessionId \notin DOMAIN sessionTable
          THEN /\ sessionResponse' = SessionResponse("PATCH", 404)
               /\ UNCHANGED sessionTable
          ELSE /\ sessionTable' =
                     [sessionTable EXCEPT
                        ![sessionId] =
                           UpdateRow(@, patchUpdateData(body, sessionTable[sessionId]))]
               /\ sessionResponse' = SessionResponse("PATCH", 200)
    /\ UNCHANGED <<engineVars, powerVars, quizVars, pageVars, filterVars,
                   serviceVars, adaptiveVars, browserVars>>

\* GET /api/sessions/:id
GetSession ==
    /\ \E sessionId \in SessionIds :
          sessionResponse' =
             SessionResponse("GET", IF sessionId \in DOMAIN sessionTable
                                    THEN 200 ELSE 404)
    /\ UNCHANGED <<engineVars, powerVars, quizVars, pageVars, filterVars,
                   serviceVars, adaptiveVars, browserVars, sessionTable>>

NextSession == CreateSession \/ PutSession \/ PatchSession \/ GetSession

SpecSession == InitSession /\ [][NextSession]_vars

(***************************************************************************)
(* SpecAdaptive: the QuizSectionAdaptive component and the routes it calls *)
(* The network delivers every request; null is "null" or <<>>.             *)
(***************************************************************************)
\* SpecAdaptive: number of requests served.
MaxAdaptiveClock == 6

QUESTION_KEY_TO_PREFERENCE ==
    [k \in {"familyComposition", "ageGroup", "hospitalLevel",
            "dayCaseProcedures", "consultantChoice", "dayToDayBenefits",
            "gpVisits", "dentalOptical", "physiotherapy",
            "outpatientSpecialists", "mentalHealth", "maternity",
            "maternityExtras", "menopauseCover", "genderAffirmation",
            "cardiacCancerCover", "travelInsurance", "plannedTreatmentAbroad",
            "budgetPriority", "claimsSpeed", "wellnessPrograms",
            "alternativeMedicine", "providerPreference", "customerService"} |->
        CASE k = "familyComposition"     -> "dependents"
          [] k = "dayCaseProcedures"     -> "dayCase"
          [] k = "outpatientSpecialists" -> "outpatientCover"
          [] k = "mentalHealth"          -> "mentalHealthCover"
          [] k = "maternity"             -> "maternityNeeded"
          [] k = "travelInsurance"       -> "overseasCoverage"
          [] OTHER                       -> k]

\* The values of the radio group.
AnswerOptions == {"option1", "option2"}

\* The useState initial values; handler is the handleNext call in flight,
\* with the values of the render it was created in.
NewAdaptive ==
    [sessionId         |-> <<>>,
     sessionStatus     |-> "initializing",
     currentQuestion   |-> <<>>,
     questionNumber    |-> 0,
     totalQuestions    |-> 0,
     answeredQuestions |-> <<>>,
     answers           |-> <<>>,
     currentAnswer     |-> "null",
     loading           |-> FALSE,
     error             |-> "",
     handler           |-> <<>>]

\* { ...answers, [key]: answer }
WithAnswer(answers, key, answer) ==
    [k \in DOMAIN answers \cup {key} |-> IF k = key THEN answer ELSE answers[k]]

\* answers[key] || null
AnswerOrNull(answers, key) ==
    IF key \in DOMAIN answers /\ Provided(answers[key]) THEN answers[key]
    ELSE "null"

\* The preferences that completeQuiz builds from answers.
PreferencesOf(answers) ==
    LET mapped == {k \in DOMAIN answers : k \in DOMAIN QUESTION_KEY_TO_PREFERENCE}
    IN  [prefKey \in {QUESTION_KEY_TO_PREFERENCE[k] : k \in mapped} |->
            answers[CHOOSE k \in mapped : QUESTION_KEY_TO_PREFERENCE[k] = prefKey]]

isLastQuestion ==
    Len(adaptive.answeredQuestions) = adaptive.totalQuestions - 1

\* The question card and its buttons are rendered.
CardRendered ==
    /\ adaptive.currentQuestion # <<>>
    /\ adaptive.sessionStatus # "completed"

\* The tables with every question active and of the same power.
AdaptiveTables ==
    {t \in QuestionTables :
        \A k \in DOMAIN t : t[k].isActive /\ t[k].discriminativePower = MaxPower}

InitAdaptive ==
    /\ questionStatistics \in AdaptiveTables
    /\ quizSessions = <<>>
    /\ questionResponseAnalytics = <<>>
    /\ now = 0
    /\ client = NotRun
    /\ response = NotRun
    /\ adaptive = NewAdaptive
    /\ userGave = <<>>
    /\ recommendationCall = NotRun
    /\ EngineIdle
    /\ PowerIdle
    /\ PageIdle
    /\ FilterIdle
    /\ ServiceIdle
    /\ BrowserIdle
    /\ SessionApiIdle

\* The effect on mount: initializeSession.
InitializeSession ==
    /\ adaptive = NewAdaptive
    /\ now < MaxAdaptiveClock
    /\ \E allQuestions \in QueryActiveQuestions(questionStatistics) :
          LET after == startSession(allQuestions)
              data == after.response[1]
          IN  /\ quizSessions' = after.quizSessions
              /\ response' = after.response
              /\ adaptive' =
                    IF data.status # 200
                    THEN [adaptive EXCEPT
                            !.error = "Failed to start quiz: Failed to start session"]
                    ELSE [adaptive EXCEPT
                            !.sessionId = data.sessionId,
                            !.currentQuestion = data.question,
                            !.totalQuestions = data.totalQuestions,
                            !.questionNumber = 1,
                            !.sessionStatus = "in-progress",
                            !.error = ""]
    /\ now' = now + 1
    /\ UNCHANGED <<engineVars, powerVars, pageVars, filterVars, serviceVars,
                   browserVars,
                   sessionApiVars, questionStatistics, questionResponseAnalytics,
                   client, userGave, recommendationCall>>

\* handleAnswer: the user selects a value for the question on the card.  A
\* value selected while handleNext is in flight comes after the answer was
\* sent and is not counted as given.
HandleAdaptiveAnswer ==
    /\ CardRendered
    /\ \E value \in AnswerOptions :
          /\ adaptive' = [adaptive EXCEPT !.currentAnswer = value, !.error = ""]
          /\ userGave' =
                IF adaptive.loading THEN userGave
                ELSE WithAnswer(userGave, adaptive.currentQuestion[1], value)
    /\ UNCHANGED <<engineVars, powerVars, pageVars, filterVars, serviceVars,
                   browserVars,
                   sessionApiVars, quizVars, recommendationCall>>

\* completeQuiz, called with the answers of the render it was created in:
\* POST complete, then getRecommendationsV3(preferences), which returns or
\* throws.
completeQuiz(answers, analyticsOk, engineOk) ==
    LET after == complete(adaptive.sessionId[1], analyticsOk) IN
    [quizSessions       |-> after.quizSessions,
     response           |-> after.response,
     recommendationCall |-> <<PreferencesOf(answers)>>,
     sessionStatus      |-> IF engineOk THEN "completed" ELSE "in-progress",
     error              |-> IF engineOk THEN adaptive.error
                            ELSE "Failed to complete quiz"]

\* The Next button: handleNext up to its second fetch.  POST record-answer,
\* whose response is not read, then the answer is added to the state.
HandleNextRecord ==
    /\ CardRendered
    /\ ~isLastQuestion
    /\ ~adaptive.loading
    /\ adaptive.currentAnswer # "null"
    /\ adaptive.sessionId # <<>>
    /\ now < MaxAdaptiveClock
    /\ \E failAt \in FailurePoints :
          LET key == adaptive.currentQuestion[1]
              body == [sessionId   |-> adaptive.sessionId,
                       questionKey |-> key,
                       answer      |-> adaptive.currentAnswer,
                       answerValue |-> <<adaptive.currentAnswer>>]
              after == recordAnswer(body, failAt)
              newAnsweredQuestions == Append(adaptive.answeredQuestions, key)
          IN  /\ questionResponseAnalytics' = after.questionResponseAnalytics
              /\ questionStatistics' = after.questionStatistics
              /\ quizSessions' = after.quizSessions
              /\ response' = after.response
              /\ adaptive' =
                    [adaptive EXCEPT
                       !.loading = TRUE,
                       !.answeredQuestions = newAnsweredQuestions,
                       !.answers = WithAnswer(@, key, adaptive.currentAnswer),
                       !.handler =
                          <<[newAnsweredQuestions |-> newAnsweredQuestions,
                             answers              |-> adaptive.answers,
                             questionNumber       |-> adaptive.questionNumber]>>]
    /\ now' = now + 1
    /\ UNCHANGED <<engineVars, powerVars, pageVars, filterVars, serviceVars,
                   browserVars,
                   sessionApiVars, client, userGave, recommendationCall>>

\* The rest of handleNext: POST next-question, then the next question is
\* shown, or completeQuiz is called, or the error is shown.
HandleNextFetch ==
    /\ adaptive.handler # <<>>
    /\ now < MaxAdaptiveClock
    /\ LET handler == adaptive.handler[1] IN
       \E allQuestions \in QueryActiveQuestions(questionStatistics),
          databaseOk \in BOOLEAN, analyticsOk \in BOOLEAN, engineOk \in BOOLEAN :
          LET body == [sessionId         |-> adaptive.sessionId,
                       answeredQuestions |-> handler.newAnsweredQuestions]
              after == nextQuestion(body, allQuestions, databaseOk)
              nextData == after.response[1]
          IN  IF nextData.status # 200
              THEN /\ quizSessions' = after.quizSessions
                   /\ response' = after.response
                   /\ adaptive' =
                         [adaptive EXCEPT
                            !.error = "Error: Failed to fetch next question",
                            !.loading = FALSE,
                            !.handler = <<>>]
                   /\ UNCHANGED recommendationCall
              ELSE IF nextData.quizComplete = "true"
              THEN LET done == completeQuiz(handler.answers, analyticsOk, engineOk) IN
                   /\ quizSessions' = done.quizSessions
                   /\ response' = done.response
                   /\ recommendationCall' = done.recommendationCall
                   /\ adaptive' =
                         [adaptive EXCEPT
                            !.sessionStatus = done.sessionStatus,
                            !.error = done.error,
                            !.loading = FALSE,
                            !.handler = <<>>]
              ELSE /\ quizSessions' = after.quizSessions
                   /\ response' = after.response
                   /\ adaptive' =
                         [adaptive EXCEPT
                            !.currentQuestion = nextData.question,
                            !.questionNumber = handler.questionNumber + 1,
                            !.currentAnswer = "null",
                            !.loading = FALSE,
                            !.handler = <<>>]
                   /\ UNCHANGED recommendationCall
    /\ now' = now + 1
    /\ UNCHANGED <<engineVars, powerVars, pageVars, filterVars, serviceVars,
                   browserVars,
                   sessionApiVars, questionStatistics, questionResponseAnalytics,
                   client, userGave>>

\* The Previous button: handlePrevious.
HandleAdaptivePrevious ==
    /\ CardRendered
    /\ adaptive.questionNumber # 1
    /\ ~adaptive.loading
    /\ adaptive.questionNumber > 1
    /\ LET previousQuestionKey ==
               adaptive.answeredQuestions[Len(adaptive.answeredQuestions)]
       IN  adaptive' =
              [adaptive EXCEPT
                 !.currentAnswer = AnswerOrNull(adaptive.answers, previousQuestionKey),
                 !.questionNumber = @ - 1,
                 !.error = ""]
    /\ UNCHANGED <<engineVars, powerVars, pageVars, filterVars, serviceVars,
                   browserVars,
                   sessionApiVars, quizVars, userGave, recommendationCall>>

\* The Get Recommendations button: completeQuiz.
GetRecommendations ==
    /\ CardRendered
    /\ isLastQuestion
    /\ ~adaptive.loading
    /\ adaptive.currentAnswer # "null"
    /\ adaptive.sessionId # <<>>
    /\ now < MaxAdaptiveClock
    /\ \E analyticsOk \in BOOLEAN, engineOk \in BOOLEAN :
          LET done == completeQuiz(adaptive.answers, analyticsOk, engineOk) IN
          /\ quizSessions' = done.quizSessions
          /\ response' = done.response
          /\ recommendationCall' = done.recommendationCall
          /\ adaptive' =
                [adaptive EXCEPT
                   !.sessionStatus = done.sessionStatus,
                   !.error = done.error,
                   !.loading = FALSE]
    /\ now' = now + 1
    /\ UNCHANGED <<engineVars, powerVars, pageVars, filterVars, serviceVars,
                   browserVars,
                   sessionApiVars, questionStatistics, questionResponseAnalytics,
                   client, userGave>>

NextAdaptive ==
    \/ InitializeSession
    \/ HandleAdaptiveAnswer
    \/ HandleNextRecord
    \/ HandleNextFetch
    \/ HandleAdaptivePrevious
    \/ GetRecommendations

SpecAdaptive == InitAdaptive /\ [][NextAdaptive]_vars

(***************************************************************************)
(* SpecSubmit: QuizSection on the questions its hard filters read, and the *)
(* elimination step of getRecommendationsV3 on the preferences it builds   *)
(***************************************************************************)
\* SpecSubmit: number of plans getPlans resolves with.
MaxSubmitPlans == 1

\* The questions of QUIZ_QUESTIONS that applyEliminationRules reads, in the
\* order of the quiz.
HardFilterQuestions ==
    <<"hospital-level", "mental-health", "maternity", "travel-insurance">>

\* question.options[..].value; SEMI_PRIVATE and HI_TECH are left out, the
\* filter treats them as it treats PUBLIC.
OptionValues(id) ==
    IF id = "hospital-level" THEN {"PUBLIC", "PRIVATE"} ELSE {"true", "false"}

\* value.toString(): a string stays itself, a boolean becomes the string
\* that spells it.
toString(v) ==
    CASE v = "true"  -> "'true'"
      [] v = "false" -> "'false'"
      [] OTHER       -> v

\* The useState initial values of QuizSection.
NewSubmitSection ==
    [currentQuestion |-> 0, answers |-> [id \in {} |-> ""],
     loading |-> FALSE, error |-> ""]

\* answers[id], undefined when the key is absent.
AnswerAt(answers, id) ==
    IF id \in DOMAIN answers THEN answers[id] ELSE "undefined"

\* The hard-filter keys of the preferences handleSubmit builds.
SubmitPreferences(answers) ==
    [NoPreferences EXCEPT
        !.hospitalLevel     = AnswerAt(answers, "hospital-level"),
        !.mentalHealthCover = AnswerAt(answers, "mental-health"),
        !.maternityNeeded   = AnswerAt(answers, "maternity"),
        !.overseasCoverage  = AnswerAt(answers, "travel-insurance")]

\* The plans of the catalog: the four fields the filter reads vary.
SubmitPlanPool ==
    {[KnownPlan("", "BASIC", <<9>>) EXCEPT
         !.hospital_cover = h, !.mental_health = mh,
         !.maternity_cover = mat, !.overseas_emergency = ov] :
        h \in {"PUBLIC", "PRIVATE"}, mh \in {"true", "false", "null"},
        mat \in {"true", "false", "null"}, ov \in {"true", "false", "null"}}

SubmitCatalogs ==
    {[i \in 1..MaxSubmitPlans |-> [c[i] EXCEPT !.plan_name = PlanNames[i]]] :
        c \in [1..MaxSubmitPlans -> SubmitPlanPool]}

InitSubmit ==
    /\ submitSection = <<NewSubmitSection>>
    /\ submitPlans \in SubmitCatalogs
    /\ submitted = NotRun
    /\ EngineIdle
    /\ PowerIdle
    /\ QuizIdle
    /\ PageIdle
    /\ FilterIdle
    /\ ServiceIdle
    /\ SessionApiIdle
    /\ AdaptiveIdle
    /\ LoaderIdle

\* The radio group hands handleAnswer the value of the item selected, which
\* is option.value.toString().
SelectOption ==
    /\ submitSection # NotRun
    /\ LET q == submitSection[1]
           id == HardFilterQuestions[q.currentQuestion + 1]
       IN  \E option \in OptionValues(id) :
              submitSection' =
                 <<[q EXCEPT !.answers =
                        [k \in DOMAIN q.answers \cup {id} |->
                            IF k = id THEN toString(option) ELSE q.answers[k]],
                      !.error = ""]>>
    /\ UNCHANGED <<engineVars, powerVars, quizVars, pageVars, filterVars,
                   serviceVars, sessionApiVars, adaptiveVars, loaderVars,
                   submitPlans, submitted>>

\* handleNext: the button is shown before the last question and enabled
\* once the question is answered.
SubmitNext ==
    /\ submitSection # NotRun
    /\ LET q == submitSection[1] IN
       /\ q.currentQuestion # Len(HardFilterQuestions) - 1
       /\ HardFilterQuestions[q.currentQuestion + 1] \in DOMAIN q.answers
       /\ submitSection' = <<[q EXCEPT !.currentQuestion = @ + 1]>>
    /\ UNCHANGED <<engineVars, powerVars, quizVars, pageVars, filterVars,
                   serviceVars, sessionApiVars, adaptiveVars, loaderVars,
                   submitPlans, submitted>>

\* handlePrevious: disabled on the first question.
SubmitPrevious ==
    /\ submitSection # NotRun
    /\ submitSection[1].currentQuestion # 0
    /\ submitSection' = <<[submitSection[1] EXCEPT !.currentQuestion = @ - 1]>>
    /\ UNCHANGED <<engineVars, powerVars, quizVars, pageVars, filterVars,
                   serviceVars, sessionApiVars, adaptiveVars, loaderVars,
                   submitPlans, submitted>>

\* handleSubmit on the last question, once it is answered: the preferences
\* go to getRecommendationsV3, whose first step filters the plans; onComplete
\* then takes the section off the page.  When getPlans rejects, the section
\* shows the error.
SubmitQuiz ==
    /\ submitSection # NotRun
    /\ LET q == submitSection[1]
           prefs == SubmitPreferences(q.answers)
       IN
       /\ q.currentQuestion = Len(HardFilterQuestions) - 1
       /\ HardFilterQuestions[q.currentQuestion + 1] \in DOMAIN q.answers
       /\ \/ /\ submitted' =
                   <<[answers       |-> q.answers,
                      preferences   |-> prefs,
                      filteredPlans |-> applyEliminationRules(submitPlans, prefs)]>>
             /\ submitSection' = NotRun
          \/ /\ submitSection' =
                   <<[q EXCEPT !.error = "Failed to get recommendations"]>>
             /\ UNCHANGED submitted
    /\ UNCHANGED <<engineVars, powerVars, quizVars, pageVars, filterVars,
                   serviceVars, sessionApiVars, adaptiveVars, loaderVars,
                   submitPlans>>

NextSubmit == SelectOption \/ SubmitNext \/ SubmitPrevious \/ SubmitQuiz

SpecSubmit == InitSubmit /\ [][NextSubmit]_vars

(***************************************************************************)
(* SpecLoader: the blueprint loader and its module cache under calls that  *)
(* overlap                                                                 *)
(***************************************************************************)
\* SpecLoader: number of calls (loadAllBlueprintData or getPlans) made.
MaxLoaderCalls == 2

\* SpecLoader: number of blueprint files loadAllBlueprintData asks for.
MaxLoaderFiles == 2

\* SpecLoader: number of clearCache calls made.
MaxClears == 1

\* The files of the getters, getPlans first.
BlueprintFiles ==
    <<"plans.json", "scoring_spec.json", "question_bank.json",
      "benefit_dictionary.json", "session_analytics_schema.json",
      "compliance_statement.md", "post_session_stats_panel.md">>

LoaderFiles == {BlueprintFiles[i] : i \in 1..MaxLoaderFiles}

\* let cachedData = {}: no key is set.
EmptyCache == [f \in LoaderFiles |-> "undefined"]

\* What the server answers for a file that it has.
FileContent(f) == <<"content", f>>

\* The object the name cachedData refers to: the last one created.
CurrentCache == Len(blueprintCache)

\* A getter called for file f: `if (!cachedData.f)` reads the current
\* object; a cached value is returned, otherwise the fetch is sent and the
\* assignment `cachedData.f = await ...` keeps the object it will write to.
StartGetter(f) ==
    IF blueprintCache[CurrentCache][f] # "undefined"
    THEN [file |-> f, object |-> CurrentCache, fetched |-> FALSE,
          state |-> "returned", value |-> blueprintCache[CurrentCache][f]]
    ELSE [file |-> f, object |-> CurrentCache, fetched |-> TRUE,
          state |-> "fetching", value |-> "undefined"]

RECURSIVE StartGetters(_)
StartGetters(files) ==
    IF files = <<>> THEN <<>>
    ELSE <<StartGetter(files[1])>> \o StartGetters(Tail(files))

InitLoader ==
    /\ blueprintCache = <<EmptyCache>>
    /\ getters = <<>>
    /\ loaderCalls = 0
    /\ EngineIdle
    /\ PowerIdle
    /\ QuizIdle
    /\ PageIdle
    /\ FilterIdle
    /\ ServiceIdle
    /\ SessionApiIdle
    /\ AdaptiveIdle
    /\ SubmitIdle

\* loadAllBlueprintData: Promise.all calls every getter before any fetch
\* answers.
LoadAllBlueprintData ==
    /\ loaderCalls < MaxLoaderCalls
    /\ loaderCalls' = loaderCalls + 1
    /\ getters' = getters \o StartGetters(SubSeq(BlueprintFiles, 1, MaxLoaderFiles))
    /\ UNCHANGED <<engineVars, powerVars, quizVars, pageVars, filterVars,
                   serviceVars, sessionApiVars, adaptiveVars, submitVars,
                   blueprintCache>>

\* getPlans, called by getRecommendationsV3 or getPlanStatistics.
CallGetPlans ==
    /\ loaderCalls < MaxLoaderCalls
    /\ loaderCalls' = loaderCalls + 1
    /\ getters' = Append(getters, StartGetter("plans.json"))
    /\ UNCHANGED <<engineVars, powerVars, quizVars, pageVars, filterVars,
                   serviceVars, sessionApiVars, adaptiveVars, submitVars,
                   blueprintCache>>

\* The fetch of a getter answers.  With response.ok the content is written
\* to the object kept by the assignment and `return cachedData.f` reads the
\* current object; otherwise loadJsonFile throws and nothing is written.
FetchAnswers ==
    /\ \E i \in DOMAIN getters :
          /\ getters[i].state = "fetching"
          /\ LET g == getters[i] IN
             \E ok \in BOOLEAN :
                IF ok
                THEN LET written == [blueprintCache EXCEPT
                                        ![g.object][g.file] = FileContent(g.file)]
                     IN  /\ blueprintCache' = written
                         /\ getters' = [getters EXCEPT ![i] =
                               [g EXCEPT !.state = "returned",
                                         !.value = written[CurrentCache][g.file]]]
                ELSE /\ getters' = [getters EXCEPT ![i].state = "thrown"]
                     /\ UNCHANGED blueprintCache
    /\ UNCHANGED <<engineVars, powerVars, quizVars, pageVars, filterVars,
                   serviceVars, sessionApiVars, adaptiveVars, submitVars,
                   loaderCalls>>

\* clearCache: cachedData = {} makes a new object.
ClearCache ==
    /\ Len(blueprintCache) <= MaxClears
    /\ blueprintCache' = Append(blueprintCache, EmptyCache)
    /\ UNCHANGED <<engineVars, powerVars, quizVars, pageVars, filterVars,
                   serviceVars, sessionApiVars, adaptiveVars, submitVars,
                   getters, loaderCalls>>

NextLoader == LoadAllBlueprintData \/ CallGetPlans \/ FetchAnswers \/ ClearCache

SpecLoader == InitLoader /\ [][NextLoader]_vars

(***************************************************************************)
(* Claims on the pure functions of engine v3                               *)
(***************************************************************************)
\* The dimensions that applyEliminationRules treats as hard requirements.
HardDims == {"maternity_cover", "mental_health", "overseas_emergency"}

\* The claims' reading of "the user answered / did not answer" a dimension.
PrefAnswered(d) == preferences[PrefKey[d]] # "undefined"

HasEntry(r, d) == \E i \in 1..Len(r.breakdown) : r.breakdown[i].feature = d

EntryIs(r, d, pts) ==
    \E i \in 1..Len(r.breakdown) :
        r.breakdown[i].feature = d /\ r.breakdown[i].points = pts

HasFlag(r, text) ==
    \E i \in 1..Len(r.verificationFlags) : r.verificationFlags[i] = text

\* C1 (as stated): a plan is removed by applyEliminationRules only when the
\* private-hospital rule applies or some hard requirement is asked for
\* (preference true) and the plan's field is explicitly false; a null or
\* undefined field never removes it.
C1_EliminationNullSafe ==
    (survivors # NotRun /\ survivors[1] = <<>>) =>
        \/ preferences.hospitalLevel = "PRIVATE" /\ plan.hospital_cover = "PUBLIC"
        \/ \E d \in HardDims :
              preferences[PrefKey[d]] = "true" /\ plan[d] = "false"

\* C2 (as stated): when a dimension is answered and the plan's field for it
\* is null or undefined, scorePlan records 0 points for the dimension and
\* pushes the verification flag of that field.
C2_ScoringNullSafe ==
    planScore # NotRun =>
        \A d \in DimSet :
            (PrefAnswered(d) /\ IsNullish(plan[d])) =>
                /\ EntryIs(planScore[1], d, 0)
                /\ HasFlag(planScore[1], FlagText[d])

\* C8: a dimension the user did not answer has no breakdown entry (adds no
\* points) and no verification flag, whatever the plan's field is; the score
\* is made of the answered dimensions only, and with no answered dimension
\* the score is 0 and there is no flag.
C8_UnansweredContributesNothing ==
    planScore # NotRun =>
        LET r == planScore[1]
            answered == SelectSeq(r.breakdown, LAMBDA e : e.feature \in DimSet)
            mult == IF HasEntry(r, "tier_multiplier")
                    THEN (CHOOSE e \in {r.breakdown[i] : i \in 1..Len(r.breakdown)} :
                            e.feature = "tier_multiplier").points
                    ELSE 100
        IN  /\ \A d \in DimSet :
                  ~PrefAnswered(d) => ~HasEntry(r, d) /\ ~HasFlag(r, FlagText[d])
            /\ \A i \in 1..Len(answered) : PrefAnswered(answered[i].feature)
            /\ r.score * 100 = SumPoints(answered) * mult
            /\ (\A d \in DimSet : ~PrefAnswered(d)) =>
                  r.score = 0 /\ r.verificationFlags = <<>>

\* C8 witness: scorePlan ran on a plan with an unknown field in a dimension
\* the user did not answer, while another answered dimension gave points.
C8_Witness ==
    /\ planScore # NotRun
    /\ planScore[1].score > 0
    /\ \E d \in DimSet : ~PrefAnswered(d) /\ IsNullish(plan[d])

\* The completeness score the engine uses and reports for a plan
\* (`completeness_score || 0`).
CompletenessOf(e) == OrZero(e.plan.completeness_score)

Close(a, b) == Abs(a.score - b.score) <= 500

\* C3: when two scored plans are within 5 points and their completeness
\* scores differ, comparePlans orders the one with the higher completeness
\* first, whichever has the higher raw score.
C3_RankingPrecedence ==
    cmpResult # NotRun =>
        LET c == cmpResult[1] IN
        (Close(c.a, c.b) /\ CompletenessOf(c.a) # CompletenessOf(c.b)) =>
            /\ CompletenessOf(c.a) > CompletenessOf(c.b) => c.value < 0
            /\ CompletenessOf(c.b) > CompletenessOf(c.a) => c.value > 0

\* C3 witness: a has the higher raw score, within 5 points, b the higher
\* completeness, and comparePlans(a, b) put b first.
C3_Witness ==
    /\ cmpResult # NotRun
    /\ cmpResult[1].a.score > cmpResult[1].b.score
    /\ Close(cmpResult[1].a, cmpResult[1].b)
    /\ CompletenessOf(cmpResult[1].b) > CompletenessOf(cmpResult[1].a)
    /\ cmpResult[1].value > 0

Before(a, b) == comparePlans(a, b) < 0

Elements(s) == {s[i] : i \in 1..Len(s)}

PairwiseSorted(s) ==
    \A i, j \in 1..Len(s) : i < j => comparePlans(s[i], s[j]) <= 0

\* C4 (as stated): comparePlans is transitive on every triple of scored
\* plans, and the sorted list is sorted with respect to every pair.
C4_TotalOrder ==
    sortedList # NotRun =>
        /\ \A a, b, c \in Elements(scoredList) :
              (Before(a, b) /\ Before(b, c)) => Before(a, c)
        /\ PairwiseSorted(sortedList[1])

\* The three score gaps of a triple lie on sides of the 5-point threshold
\* for which the three rules agree: a within 5 of c only if both are within
\* 5 of b, and a more than 5 from c only if b is more than 5 from one of them.
GapsAgree(a, b, c) ==
    /\ Close(a, c) => (Close(a, b) /\ Close(b, c))
    /\ ~Close(a, c) => (~Close(a, b) \/ ~Close(b, c))

\* Every pair of the list is within 5 points, or every pair is more than 5
\* points apart.
UniformGaps(s) ==
    \/ \A i, j \in 1..Len(s) : Close(s[i], s[j])
    \/ \A i, j \in 1..Len(s) : i # j => ~Close(s[i], s[j])

\* C4 (amended): comparePlans is antisymmetric; it is transitive on the
\* triples whose score gaps agree, and a list whose score gaps are uniform
\* is sorted with respect to every pair.
C4_OrderWhereGapsAgree ==
    sortedList # NotRun =>
        /\ \A a, b \in Elements(scoredList) : Before(a, b) => ~Before(b, a)
        /\ \A a, b, c \in Elements(scoredList) :
              (GapsAgree(a, b, c) /\ Before(a, b) /\ Before(b, c)) => Before(a, c)
        /\ UniformGaps(scoredList) => PairwiseSorted(sortedList[1])

\* C4 witness: a list within 5 points throughout, given in reverse order,
\* that the sort had to reorder by completeness.
C4_Witness ==
    /\ sortedList # NotRun
    /\ UniformGaps(scoredList)
    /\ Before(scoredList[3], scoredList[2])
    /\ Before(scoredList[2], scoredList[1])
    /\ scoredList[1].score # scoredList[3].score
    /\ sortedList[1] = <<scoredList[3], scoredList[2], scoredList[1]>>

(***************************************************************************)
(* Claims on getRecommendationsV3                                          *)
(***************************************************************************)
Completed == pc \in {"returned", "thrown"}

\* C5: a later call with the same plans.json, scoring_spec.json and
\* preferences ends as the first call did: the same results (plans, order,
\* scores, drivers, flags), whatever order the scoring callbacks complete in.
C5_Deterministic ==
    (Completed /\ firstOutcome # NotRun) => Outcome = firstOutcome[1]

\* C5 witness: a second call returned at least two results, ranked in an
\* order other than the catalog's.
C5_Witness ==
    /\ pc = "returned"
    /\ firstOutcome # NotRun
    /\ Len(results) >= 2
    /\ results[1].plan.plan_name = "P2"

\* C6 (as stated): every returned result carries a relative score that is a
\* number in 0..100, equal to round(rawScore / topResult.rawScore * 100),
\* and matchPercentage is that same number.
C6_RelativeScoreInRange ==
    pc = "returned" =>
        \A i \in 1..Len(results) :
            /\ results[i].score.kind = "number"
            /\ results[i].score.value \in 0..100
            /\ results[i].matchPercentage = results[i].score
            /\ scoredPlans[1].score # 0 =>
                  results[i].score.value =
                      RoundDiv(scoredPlans[i].score * 100, scoredPlans[1].score)

\* The catalog and the scoring spec were loaded, so the call got to step 1.
InputsLoaded == cachedData.plans # <<>> /\ cachedData.scoringSpec # <<>>

\* C7: when the loaded catalog is empty, or every plan of it fails the
\* elimination rules, the call returns the empty list and does not throw.
C7_EmptyResultNotError ==
    (/\ Completed
     /\ InputsLoaded
     /\ \A i \in 1..Len(cachedData.plans[1]) :
           ~PassesElimination(cachedData.plans[1][i], preferences)) =>
        pc = "returned" /\ results = <<>>

\* C7 witness: a call over a non-empty catalog returned after elimination
\* removed every plan.
C7_Witness ==
    /\ pc = "returned"
    /\ Len(allPlans) > 0
    /\ filteredPlans = <<>>
    /\ results = <<>>

\* Every preference holds a value of its declared type.
WellTyped(prefs) ==
    /\ prefs.hospitalLevel \in
          {"undefined", "PUBLIC", "SEMI_PRIVATE", "PRIVATE", "HI_TECH"}
    /\ \A d \in DimSet \ {"hospital_cover"} :
          prefs[PrefKey[d]] \in {"undefined", "true", "false"}

\* C9 (as stated): preferences with a field of the wrong type are rejected
\* before any filtering or scoring, so a call with such preferences never
\* gets to score plans or to return recommendations.
C9_MalformedRejected ==
    ~WellTyped(preferences) => pc \notin {"score", "returned"}

(***************************************************************************)
(* Claims on calculateCompletenessScore                                    *)
(***************************************************************************)
\* The key fields that hold a value.
knownKeyCount(p) ==
    Cardinality({i \in 1..Len(keyFields) :
                    p[keyFields[i]] \in {"true", "false"}})

nullKeyCount(p) ==
    Cardinality({i \in 1..Len(keyFields) :
                    p[keyFields[i]] \in {"null", "undefined"}})

\* C10: the score is (N - nullKeyCount) / N over the N key fields, null and
\* undefined counting alike; it is 1 when every key field is known, 0 when
\* none is, nullKeyCount + knownKeyCount = N, and the score lies in [0, 1].
C10_Completeness ==
    completenessScore # NotRun =>
        LET N == Len(keyFields)
            score == completenessScore[1]
        IN  /\ FracEq(score, Frac(N - nullKeyCount(v2plan), N))
            /\ knownKeyCount(v2plan) = N => FracEq(score, Frac(1, 1))
            /\ knownKeyCount(v2plan) = 0 => FracEq(score, Frac(0, 1))
            /\ nullKeyCount(v2plan) + knownKeyCount(v2plan) = N
            /\ FracLeq(Frac(0, 1), score) /\ FracLeq(score, Frac(1, 1))

\* C10 witness: the score of a plan with null, absent, false and true key
\* fields has been computed.
C10_Witness ==
    /\ completenessScore # NotRun
    /\ v2plan["hospitalCover"] = "null"
    /\ v2plan["outpatientCover"] = "undefined"
    /\ v2plan["gpVisits"] = "false"
    /\ v2plan["privateRoom"] = "true"
    /\ FracEq(completenessScore[1], Frac(7, 9))

(***************************************************************************)
(* Claims on calculateDiscriminativePower                                  *)
(***************************************************************************)
Zero == Frac(0, 1)
One == Frac(1, 1)

\* C11: calculateDiscriminativePower returns |plansWithYes - plansWithNo| /
\* totalPlans as a fraction (28/272, about 0.1029, for 150, 122 and 272),
\* and returns the number 0, without dividing, when totalPlans is 0.
C11_PowerFormula ==
    power # NotRun =>
        LET c == powerCall
            r == power[1]
        IN  /\ r.den # 0
            /\ c.totalPlans = 0 => r.num = 0
            /\ c.totalPlans # 0 =>
                  FracEq(r, Frac(Abs(c.plansWithYes - c.plansWithNo), c.totalPlans))
            /\ (/\ c.plansWithYes = 150 /\ c.plansWithNo = 122
                /\ c.totalPlans = 272) =>
                  /\ FracEq(r, Frac(28, 272))
                  /\ FracLeq(Frac(1029, 10000), r)
                  /\ FracLeq(r, Frac(1030, 10000))

\* C11 witness: the documented example has been computed and gave 28/272.
C11_Witness ==
    /\ power # NotRun
    /\ powerCall.plansWithYes = 150
    /\ powerCall.totalPlans = 272
    /\ power[1] = Frac(28, 272)

\* C12 (as stated): for any question key and any counts passed, the result
\* lies between 0 and 1.
C12_PowerBounded ==
    power # NotRun => FracLeq(Zero, power[1]) /\ FracLeq(power[1], One)

\* The arguments count plans: the plans matching YES and those matching NO
\* are disjoint parts of the totalPlans plans.
CountsOfPlans(c) == c.plansWithYes + c.plansWithNo <= c.totalPlans

\* C12 (amended): when the arguments count plans, the result lies between 0
\* and 1; the function does not check its arguments.
C12_PowerBoundedForPlanCounts ==
    (power # NotRun /\ CountsOfPlans(powerCall)) =>
        FracLeq(Zero, power[1]) /\ FracLeq(power[1], One)

\* C12 witness: counts of plans, some plans matching neither answer, gave a
\* result strictly between 0 and 1.
C12_Witness ==
    /\ power # NotRun
    /\ powerCall.plansWithYes + powerCall.plansWithNo < powerCall.totalPlans
    /\ ~FracLeq(power[1], Zero)
    /\ ~FracLeq(One, power[1])

\* The answer matches every plan, or no plan.
AllOrNone(c) ==
    \/ c.plansWithYes = c.totalPlans /\ c.plansWithNo = 0
    \/ c.plansWithYes = 0 /\ c.plansWithNo = c.totalPlans

ActiveKeys == {q.questionKey : q \in ActiveQuestions(questionStatistics)}

AnsweredKeys == Elements(client.answeredQuestions)

PowerOf(key) == questionStatistics[key].discriminativePower

\* No active question remains unanswered.
PoolEmpty == ActiveKeys \subseteq AnsweredKeys

\* A question is on the screen, waiting for its answer.
QuestionShown ==
    /\ client.sessionStatus = "in-progress"
    /\ ~client.loading
    /\ client.currentQuestion # <<>>

\* C14 (as stated): whenever no active question remains unanswered,
\* getNextBestQuestion returns null, and the response of start-session and
\* of next-question is an empty result (status 200, no question), not an
\* error response.
C14_EmptyPoolNotError ==
    (client # NotRun /\ PoolEmpty) =>
        /\ \A allQuestions \in QueryActiveQuestions(questionStatistics) :
              getNextBestQuestion(allQuestions, client.answeredQuestions) = <<>>
        /\ (/\ response # NotRun
            /\ response[1].route \in {"start-session", "next-question"}) =>
              /\ response[1].status = 200
              /\ response[1].question = <<>>
              /\ response[1].error = ""

KeyRank(key) == CHOOSE i \in 1..Len(QuizKeys) : QuizKeys[i] = key

\* C16 (as stated): the question returned is the remaining one of highest
\* discriminativePower and, among those of equal power, the first by
\* questionKey, whatever order the rows were supplied in.
C16_TieBreakByKey ==
    (client # NotRun /\ QuestionShown) =>
        \A k \in ActiveKeys \ AnsweredKeys :
            \/ PowerOf(k) < PowerOf(client.currentQuestion[1])
            \/ /\ PowerOf(k) = PowerOf(client.currentQuestion[1])
               /\ KeyRank(client.currentQuestion[1]) <= KeyRank(k)

\* C20 (as stated): once the complete route has answered with success for
\* a session, the session's completedAt is set; a session whose quiz is in
\* progress has no completedAt.
C20_CompletedRecorded ==
    client # NotRun =>
        /\ (/\ response # NotRun
            /\ response[1].route = "complete"
            /\ response[1].status = 200) =>
              quizSessions[response[1].sessionId[1]].completedAt # <<>>
        /\ (client.sessionId # <<>> /\ client.sessionStatus = "in-progress") =>
              quizSessions[client.sessionId[1]].completedAt = <<>>

\* The session the component is running.
ClientSession == quizSessions[client.sessionId[1]]

\* The last request was a record-answer that the route answered with success.
AnswerRecorded ==
    /\ client # NotRun
    /\ response # NotRun
    /\ response[1].route = "record-answer"
    /\ response[1].status = 200

\* C21 (as stated): after a successful record-answer for a session, the
\* session's questionsAskedOrder is not empty and ends with the key of the
\* question just answered, and currentQuestionIndex is the number of keys
\* it lists.
C21_ProgressTracked ==
    AnswerRecorded =>
        LET order == ClientSession.questionsAskedOrder
            answered == client.answeredQuestions
        IN  /\ order # <<>>
            /\ order[Len(order)] = answered[Len(answered)]
            /\ ClientSession.currentQuestionIndex = Len(order)

\* The number of rows of "QuestionResponseAnalytics" for a question.
RecordedAnswers(key) ==
    Cardinality({i \in 1..Len(questionResponseAnalytics) :
                    questionResponseAnalytics[i].questionKey = key})

\* C25 (as stated): whatever record-answer calls were made, and however
\* they ended, the totalResponses of every question is the number of
\* answers recorded for it.
C25_ResponsesMatchAnalytics ==
    client # NotRun =>
        \A key \in DOMAIN questionStatistics :
            questionStatistics[key].totalResponses = RecordedAnswers(key)

(***************************************************************************)
(* Claims on the home page                                                 *)
(***************************************************************************)
\* C17 (as stated): the page is in the quiz state, or in a state that
\* follows it, only after the user agreed at the consent gate; after Decline
\* (the stored choice is 'false') the page is still at the gate and no
\* answer has been collected.
C17_ConsentGating ==
    home # NotRun =>
        /\ home[1].pageState # "consent" => analytics_consent = "true"
        /\ quizSection # NotRun => analytics_consent = "true"

(***************************************************************************)
(* Claims on the hard filter of engine v2                                  *)
(***************************************************************************)
\* A benefit the user requires is explicitly false in the plan.
RequiredBenefitFalse(p, prefs) ==
    \E i \in 1..Len(HardFilters) :
        prefs[HardFilters[i].need] = "true" /\ p[HardFilters[i].field] = "false"

\* The positions of the plans of `plans` that make up `kept`, in order.
KeptPositions(plans, kept) ==
    {f \in [1..Len(kept) -> 1..Len(plans)] :
        /\ \A i \in 1..Len(kept) : kept[i] = plans[f[i]]
        /\ \A i, j \in 1..Len(kept) : i < j => f[i] < f[j]}

SoftDims == {"outpatient_cover", "gp_visits"}

\* C19 (as stated): for a benefit the user asked for, a plan whose field is
\* explicitly false gets 0 points for that dimension, and the same plan
\* with a soft benefit (GP visits, outpatient cover) set to true scores
\* strictly higher than with it set to false.
C19_PlanFieldScored ==
    planScore # NotRun =>
        \A d \in DimSet \ {"hospital_cover"} :
            (preferences[PrefKey[d]] = "true" /\ plan[d] = "false") =>
                /\ EntryIs(planScore[1], d, 0)
                /\ d \in SoftDims =>
                      scorePlan([plan EXCEPT ![d] = "true"], preferences,
                                scoringSpec).score > planScore[1].score

(***************************************************************************)
(* Claims on the service engine                                            *)
(***************************************************************************)
\* The plan fields that the scoring function of a preference reads.
CategoryFields(key) ==
    CASE key = "coverageType" ->
            {"hospitalCover", "consultantChoice", "dentalCover", "opticalCover"}
      [] key = "dentalOptical" -> {"dentalCover", "opticalCover"}
      [] key \in {"hospitalCover", "consultantChoice", "maternityExtras",
                  "dayToDayBenefits", "menopauseBenefit", "prescriptionCover",
                  "physioRehab", "mentalHealthSupport"} -> {key}
      [] OTHER -> {}

ServiceReturned == serviceResult # NotRun /\ serviceResult[1].status = "returned"

\* C22 (as stated): in every plan that generateRecommendations scored, a
\* category whose preference was answered and whose plan fields are all
\* null (unknown) has 0 points.
C22_UnknownScoresZero ==
    ServiceReturned =>
        \A r \in Elements(serviceResult[1].allRecommendations) :
            \A i \in 1..Len(ServiceCategories) :
                LET key == ServiceCategories[i].preference
                    p == serviceCall.table[r.planId]
                IN  (/\ Provided(serviceCall.preferences[key])
                     /\ CategoryFields(key) # {}
                     /\ \A f \in CategoryFields(key) : p[f] = "null") =>
                        r.scoreBreakdown[i].points = 0

NoActivePlans ==
    \A i \in 1..Len(serviceCall.table) : ~serviceCall.table[i].isActive

\* C23 (as stated): when the "Plan" table has no active row,
\* generateRecommendations returns a result whose allRecommendations is
\* empty and whose totalPlansScored is 0; it does not throw.
C23_NoPlansEmptyResult ==
    (serviceResult # NotRun /\ NoActivePlans) =>
        /\ serviceResult[1].status = "returned"
        /\ serviceResult[1].allRecommendations = <<>>
        /\ serviceResult[1].totalPlansScored = 0

(***************************************************************************)
(* Claims on the sessions API                                              *)
(***************************************************************************)
\* C24 (as stated): a stored Session row holds an ipAddress or a userAgent
\* only if its privacyConsented is true.
C24_NoAddressWithoutConsent ==
    \A id \in DOMAIN sessionTable :
        (sessionTable[id].ipAddress # "null" \/ sessionTable[id].userAgent # "null")
            => sessionTable[id].privacyConsented = "true"

\* The quiz fields of a stored row that hold a non-empty value.
FilledFields(row) == {f \in QuizFieldSet : Filled(row[f])}

\* C28 (as stated): the stored questionsAnswered of every session is the
\* number of its quiz fields that hold a non-empty value.
C28_QuestionsAnsweredCounts ==
    \A id \in DOMAIN sessionTable :
        sessionTable[id].questionsAnswered =
            Cardinality(FilledFields(sessionTable[id]))

(***************************************************************************)
(* Claims on the QuizSectionAdaptive component                             *)
(***************************************************************************)
\* The preferences hold the value the user gave for the question of a key.
PassedOn(prefs, key) ==
    /\ QUESTION_KEY_TO_PREFERENCE[key] \in DOMAIN prefs
    /\ prefs[QUESTION_KEY_TO_PREFERENCE[key]] = userGave[key]

\* C26 (as stated): when the quiz has completed, the preferences that were
\* passed to getRecommendationsV3 hold, for every question the user gave
\* an answer to, that answer; the last question is one of them.
C26_AllAnswersPassed ==
    (recommendationCall # NotRun /\ adaptive.sessionStatus = "completed") =>
        \A key \in DOMAIN userGave : PassedOn(recommendationCall[1], key)

\* The card waits for the user: the session is in progress and no handler
\* is in flight.
AwaitingUser ==
    /\ adaptive # NotRun
    /\ adaptive.sessionStatus = "in-progress"
    /\ adaptive.currentQuestion # <<>>
    /\ ~adaptive.loading

\* C30 (as stated): while the card waits for the user, questionNumber is
\* the number of answered questions plus one and is at most
\* totalQuestions, and the answer stored under the key of a question that
\* has left the card is the one the user gave for that question.
C30_NumberAndAnswersAgree ==
    AwaitingUser =>
        /\ adaptive.questionNumber = Len(adaptive.answeredQuestions) + 1
        /\ adaptive.questionNumber <= adaptive.totalQuestions
        /\ \A key \in DOMAIN adaptive.answers \ {adaptive.currentQuestion[1]} :
              /\ key \in DOMAIN userGave
              /\ adaptive.answers[key] = userGave[key]

(***************************************************************************)
(* Claims on QuizSection and the elimination step                          *)
(***************************************************************************)
\* The option the user selected for a question: the one whose item value is
\* the answer stored.
SelectedOption(answers, id) ==
    CHOOSE o \in OptionValues(id) : toString(o) = answers[id]

\* The hard-filter questions with boolean options and the preference key
\* each one feeds.
BooleanQuestions ==
    {<<"mental-health", "mentalHealthCover">>,
     <<"maternity", "maternityNeeded">>,
     <<"travel-insurance", "overseasCoverage">>}

\* The preferences with the keys of the questions answered `No` left
\* unanswered.
WithoutNoAnswers(sub) ==
    [k \in DOMAIN sub.preferences |->
        IF \E qk \in BooleanQuestions :
              /\ qk[2] = k
              /\ SelectedOption(sub.answers, qk[1]) = "false"
        THEN "undefined"
        ELSE sub.preferences[k]]

\* C27: after a submit, the plans kept are the plans that would be kept had
\* the questions answered `No` not been answered at all: a `No` for
\* maternity, mental health or travel eliminates no plan.
C27_NoNeverEliminates ==
    submitted # NotRun =>
        submitted[1].filteredPlans =
            applyEliminationRules(submitPlans, WithoutNoAnswers(submitted[1]))

(***************************************************************************)
(* Claims on the blueprint loader                                          *)
(***************************************************************************)
\* The fetches sent for file f while cachedData referred to object k, the
\* ones that failed left out.
FetchesOf(k, f) ==
    {i \in DOMAIN getters :
        /\ getters[i].fetched
        /\ getters[i].file = f
        /\ getters[i].object = k
        /\ getters[i].state # "thrown"}

\* C29: between two clearCache calls each blueprint file is fetched at most
\* once, however the getter calls overlap.
C29_FetchedAtMostOnce ==
    \A k \in DOMAIN blueprintCache : \A f \in LoaderFiles :
        Cardinality(FetchesOf(k, f)) <= 1

====
